---- MODULE Spec2Model ----
(***************************************************************************)
(* W-Chain info bot: the alert watchers (buyback, whale, exchange flow,    *)
(* WCO DEX, W-Swap liquidity), their cursors, their delivery loops and the *)
(* JSON state file they share.                                             *)
(*                                                                         *)
(* One behaviour follows one watcher (`kind`, fixed in Init) polling one   *)
(* feed.  Coroutines interleave only at their awaits, so every action is   *)
(* the code between two awaits; the asyncio lock is never held across an   *)
(* await and therefore never contended.                                    *)
(*                                                                         *)
(* The upstream feed is `chain`, oldest first.  The identifier of the item *)
(* at position i is i itself, or None when the explorer record carries no  *)
(* usable hash/key.  The code compares identifiers for equality only; the  *)
(* properties use the order to say "older" and "newer".                    *)
(***************************************************************************)
EXTENDS Integers, Sequences, FiniteSets, TLC

VARIABLES
    kind,        \* which watcher class this behaviour follows
    enabled,     \* settings.<watcher>_alerts_enabled and the channel id is set
    alerts_enabled, \* _alerts_enabled, the admin switch of the DEX and liquidity watchers
    env,         \* environment of the behaviour: overlapping invocations, chats
    chain,       \* upstream feed, oldest first
    cursor,      \* _last_seen_tx_hash / _last_seen_key / _last_seen_by_*[feed]
    subs,        \* BuybackAlertService._subscribers
    processed,   \* _processed_tx_hashes / _processed_event_keys
    disk,        \* the shared state file: section name -> section
    init,        \* the ensure_initialized coroutine
    proc,        \* the poll coroutines (locals of poll_and_broadcast / poll_and_alert)
    attempted,   \* identifiers handed to bot.send_message at least once
    smem,        \* SpecStore: each watcher's in-memory state
    sfile,       \* SpecStore: the shared state file
    sdoc,        \* SpecStore: the file is absent, a valid document, or malformed JSON
    dvis,        \* SpecDex: per transaction, the polling paths that show it
    dcur,        \* SpecDex: _last_seen_router / _last_seen_by_pool / _last_seen_whale_tx
    dcache,      \* SpecDex: _processed_tx_hashes
    dproc,       \* SpecDex: the poll_and_alert coroutine of the DEX watcher
    dsent,       \* SpecDex: send attempts per transaction hash
    devicted,    \* SpecDex: hashes _mark_processed has dropped from the cache
    parity,      \* per chat: it has issued an odd number of toggle_subscription calls
    call,        \* a function applied on its own: its arguments and, once it returned, its result
    burn         \* the legacy bot (src/bot.py): burn_watch_state, burn_watch_subscribers, the monitor job

vars == <<kind, enabled, alerts_enabled, env, chain, cursor, subs, processed, disk,
          init, proc, attempted, smem, sfile, sdoc,
          dvis, dcur, dcache, dproc, dsent, devicted, parity, call, burn>>

watcherVars == <<kind, enabled, alerts_enabled, env, chain, cursor, subs, processed, disk,
                 init, proc, attempted, parity>>
storeVars == <<smem, sfile, sdoc>>
dexVars == <<dvis, dcur, dcache, dproc, dsent, devicted>>
pureVars == <<call>>
legacyVars == <<burn>>
sideVars == <<storeVars, dexVars, pureVars, legacyVars>>

-----------------------------------------------------------------------------
(* Bounds *)

MaxFeed == 3        \* items the upstream feed ever holds
PageSize == 3       \* page_size of a poll (settings.*_poll_page_size, scaled)
MaxCache == 2       \* _max_processed_cache, scaled

(* Program constants *)

InitPageSize == 1   \* page_size=1 of every ensure_initialized fetch
MinAmount == 2      \* configured minimum amount of an alert, in model units
Price == 1          \* the WCO price when the oracle answers
MinUsd == 4         \* wswap_liquidity_min_usd, in model units

None == 0
NoPrice == 0

Pollers == {"buyback", "whale", "exchange_flow", "wco_dex", "wswap_liquidity"}
Watchers == Pollers \cup {"daily_report"}
Channel == 0          \* the single configured channel of the channel watchers
Procs == {1, 2}
\* an amount of zero, one below the minimum, one at the minimum
Amounts == {0, MinAmount - 1, MinAmount}
\* a value that Decimal() reads as NaN ("nan", a JSON NaN literal): `wei <= 0`
\* and every other ordering comparison on it raise InvalidOperation
NaNAmount == -1

-----------------------------------------------------------------------------
(* Helpers *)

Reverse(s) == [i \in 1..Len(s) |-> s[Len(s) + 1 - i]]

Minimum(a, b) == IF a < b THEN a ELSE b

RECURSIVE SortedSeq(_)
SortedSeq(S) ==
    IF S = {} THEN <<>>
    ELSE LET m == CHOOSE x \in S : \A y \in S : x <= y
         IN <<m>> \o SortedSeq(S \ {m})

SeqToSet(s) == {s[i] : i \in 1..Len(s)}

-----------------------------------------------------------------------------
(* The upstream client *)

\* get_address_transactions / get_address_internal_transactions / get_address_logs:
\* the newest page_size items, newest first.
Page(feed, page_size) ==
    [i \in 1..Minimum(page_size, Len(feed)) |-> feed[Len(feed) + 1 - i]]

FetchOutcomes == {"ok", "http_error", "bad_json"}

\* A client that hands over a page although the request failed.
PayloadItems_Leaky(outcome, page) == page

\* items = (payload or {}).get("items") or []: an HTTP error makes the client
\* return None, hence no items.
PayloadItems(outcome, page) == IF outcome = "ok" THEN page ELSE <<>>

\* item.get("hash") / _unique_key / _unique_key_internal / _unique_key_from_log
UniqueKey(item) == item.id

-----------------------------------------------------------------------------
(* Change detection *)

\* A scan that lets items without identifier through.
SkipItem_Never(key) == FALSE

\* if not tx_hash: continue
SkipItem(key) == key = None

\* The scan loop of every watcher: skip items without key, stop at last_seen.
RECURSIVE ScanNew(_, _, _)
ScanNew(items, i, last_seen) ==
    IF i > Len(items) THEN <<>>
    ELSE LET key == UniqueKey(items[i]) IN
         IF SkipItem(key) THEN ScanNew(items, i + 1, last_seen)
         ELSE IF last_seen # None /\ key = last_seen THEN <<>>
         ELSE <<items[i]>> \o ScanNew(items, i + 1, last_seen)

\* A detect that forgets new_items.reverse().
ExtractNewItems_NoReverse(items, last_seen) == ScanNew(items, 1, last_seen)

\* ExchangeFlowAlertService._extract_new_items: (items_oldest_first, newest_hash)
ExtractNewItems(items, last_seen) == Reverse(ScanNew(items, 1, last_seen))

NewestHash(items, last_seen) ==
    LET new_items == ScanNew(items, 1, last_seen)
    IN IF new_items = <<>> THEN None ELSE UniqueKey(new_items[1])

\* BuybackAlertService._extract_new_events / WCOWhaleAlert._extract_new_whale_buys:
\* the new items, oldest first, that parse to an amount > 0.
ExtractNewEvents(items, last_seen) ==
    SelectSeq(ExtractNewItems(items, last_seen), LAMBDA it : it.amt > 0)

\* buyback and whale take the cursor from the last event, the others from the
\* newest new item.
CursorFromEvents(k) == k \in {"buyback", "whale"}

\* A detect that never stops at the cursor.
Batch_NoBreak(k, items, last_seen) ==
    IF CursorFromEvents(k) THEN ExtractNewEvents(items, None)
    ELSE ExtractNewItems(items, None)

Batch(k, items, last_seen) ==
    IF CursorFromEvents(k) THEN ExtractNewEvents(items, last_seen)
    ELSE ExtractNewItems(items, last_seen)

CandidateCursor(k, items, last_seen) ==
    LET events == ExtractNewEvents(items, last_seen) IN
    IF CursorFromEvents(k)
    THEN (IF events = <<>> THEN None ELSE events[Len(events)].id)
    ELSE NewestHash(items, last_seen)

-----------------------------------------------------------------------------
(* Classification and thresholds of the delivery loop *)

HasPrice(k) == k \in {"wco_dex", "wswap_liquidity"}
HasCache(k) == k \in {"wco_dex", "wswap_liquidity"}
\* the watchers an admin can switch off at run time
HasSwitch(k) == k \in {"wco_dex", "wswap_liquidity"}

PriceOutcomes(k) == IF HasPrice(k) THEN {NoPrice, Price} ELSE {NoPrice}

\* usd_value = wco_amount * wco_price * 2, None without a price
UsdValue(amt, wco_price) == amt * wco_price * 2

\* Does the loop body reach _send_* for this item?
Passes(k, item, wco_price, cache) ==
    CASE k = "wswap_liquidity" ->
            /\ ~(wco_price # NoPrice /\ UsdValue(item.amt, wco_price) < MinUsd)
            /\ UniqueKey(item) \notin cache
      [] k = "wco_dex" ->
            /\ UniqueKey(item) \notin cache
            /\ item.amt > 0
            /\ ~(item.amt < MinAmount)
      [] OTHER ->
            /\ item.amt > 0
            /\ ~(item.amt < MinAmount)

\* Does the loop body raise on this item?  _parse_wco_amount compares outside
\* its try block; the DEX paths test the cache first; the liquidity loop
\* compares the USD value only when it has a price.  Buyback and whale parse
\* in their detect, not in the loop.
ParseRaises(k, item, wco_price, cache) ==
    /\ item.amt = NaNAmount
    /\ CASE k = "wswap_liquidity" -> wco_price # NoPrice
         [] k = "wco_dex" -> UniqueKey(item) \notin cache
         [] k \in {"buyback", "whale"} -> FALSE
         [] OTHER -> TRUE

\* Index of the first item at or after i the loop sends, Len + 1 when none.
RECURSIVE NextToSend(_, _, _, _, _)
NextToSend(k, batch, i, wco_price, cache) ==
    IF i > Len(batch) THEN i
    ELSE IF Passes(k, batch[i], wco_price, cache) THEN i
    ELSE NextToSend(k, batch, i + 1, wco_price, cache)

\* A mark that never evicts.
MarkProcessedChoices_NoEvict(cache, key) == {cache \cup {key}}

\* _mark_processed: add, then drop `excess` entries of list(set), whose order
\* is the set's iteration order.
MarkProcessedChoices(cache, key) ==
    LET added == cache \cup {key} IN
    IF Cardinality(added) > MaxCache
    THEN {added \ drop : drop \in {d \in SUBSET added :
                                     Cardinality(d) = Cardinality(added) - MaxCache}}
    ELSE {added}

-----------------------------------------------------------------------------
(* The state file *)

NoSection == [present |-> FALSE, last_seen |-> None, subscribers |-> <<>>,
              processed |-> {}, alerts_enabled |-> TRUE]

EmptyFile == [w \in Watchers |-> NoSection]

\* The section a watcher writes for itself.
SectionOf(k, last_seen, subscribers, cache) ==
    [present |-> TRUE,
     last_seen |-> last_seen,
     subscribers |-> IF k = "buyback" THEN SortedSeq(subscribers) ELSE <<>>,
     processed |-> IF HasCache(k) THEN cache ELSE {},
     alerts_enabled |-> IF HasSwitch(k) THEN alerts_enabled ELSE TRUE]

\* Every watcher writing a document that holds only its own section.
SaveState_TruncateAll(w, file, section) ==
    [s \in Watchers |-> IF s = w THEN section ELSE NoSection]

\* _save_state: buyback writes a document holding only its own section, every
\* other watcher reads the document and replaces its own section.
SaveState(w, file, section) ==
    IF w = "buyback"
    THEN [s \in Watchers |-> IF s = w THEN section ELSE NoSection]
    ELSE [file EXCEPT ![w] = section]

\* _load_state
LoadCursor(w, file) == IF file[w].present THEN file[w].last_seen ELSE None
LoadSubscribers(w, file) ==
    IF w = "buyback" /\ file[w].present THEN SeqToSet(file[w].subscribers) ELSE {}
LoadProcessed(w, file) ==
    IF HasCache(w) /\ file[w].present THEN file[w].processed ELSE {}
\* for h in processed[-self._max_processed_cache:]: the last max entries of the
\* persisted list, whose order is that of list(set) at the time of the save.
LastEntries(ids) ==
    IF Cardinality(ids) > MaxCache
    THEN {keep \in SUBSET ids : Cardinality(keep) = MaxCache}
    ELSE {ids}
\* A load that leaves the switch at its default.
LoadAlertsEnabled_Default(w, file) == TRUE

\* _alerts_enabled starts True and takes the file's value when it holds a bool
LoadAlertsEnabled(w, file) ==
    IF HasSwitch(w) /\ file[w].present THEN file[w].alerts_enabled ELSE TRUE

\* The other watcher writing to the same file in the behaviours of Spec.
Sibling(k) == IF k = "buyback" THEN "whale" ELSE "buyback"
SiblingSection == [present |-> TRUE, last_seen |-> None, subscribers |-> <<>>,
                   processed |-> {}, alerts_enabled |-> TRUE]

-----------------------------------------------------------------------------
(* Coroutine locals *)

\* The chats that ever talk to the bot.
Chats == {1, 2}

IdleProc == [pc |-> "idle", last_seen |-> None, subscribers |-> {},
             batch |-> <<>>, idx |-> 1, chats |-> {}, failures |-> {},
             newest |-> None, wco_price |-> NoPrice,
             fetch |-> "none", result |-> "none"]

IdleInit == [pc |-> "todo", requested |-> 0, result |-> "none"]

Busy(p) == proc[p].pc # "idle"

-----------------------------------------------------------------------------
(* Store model (SpecStore): the six _save_state / _load_state pairs on one file *)

\* The cursor values a watcher may commit.
StoreValues == {1, 2}

StoreInit ==
    /\ smem = [w \in Watchers |-> None]
    /\ sfile = EmptyFile

\* write_text succeeds, raises OSError before touching the file, or raises
\* after open() has truncated it.
WriteOutcomes == {"written", "refused", "truncated"}

\* A reader that takes the sections out of a document it cannot parse.
ReadDocument_Stale(doc, file) == file

\* What a reader gets from the file: FileNotFoundError and JSONDecodeError make
\* _load_state return with nothing loaded; in _save_state a missing file or
\* any error of the read leaves data = {}.
ReadDocument(doc, file) == IF doc = "valid" THEN file ELSE EmptyFile

\* A save whose failure undoes the change in memory.
AfterSave_Rollback(old, new, outcome) == IF outcome = "written" THEN new ELSE old

\* The in-memory value once _save_state has returned: the OSError of the write
\* is caught and logged, the assignment before it stands.
AfterSave(old, new, outcome) == new

\* Watcher w changes its in-memory state and calls _save_state under its lock
\* (every mutation in the services is followed by _save_state).
StoreCommit(w, v, outcome) ==
    /\ smem' = [smem EXCEPT ![w] = AfterSave(@, v, outcome)]
    /\ sfile' = IF outcome = "written"
                THEN SaveState(w, ReadDocument(sdoc, sfile), SectionOf(w, v, {}, {}))
                ELSE sfile
    /\ sdoc' = CASE outcome = "written" -> "valid"
                 [] outcome = "truncated" -> "malformed"
                 [] OTHER -> sdoc
    /\ UNCHANGED watcherVars
    /\ UNCHANGED <<dexVars, pureVars, legacyVars>>

\* The process restarts: every service is constructed from the file.
StoreRestart ==
    /\ smem' = [w \in Watchers |-> LoadCursor(w, ReadDocument(sdoc, sfile))]
    /\ smem' # smem
    /\ UNCHANGED <<sfile, sdoc>>
    /\ UNCHANGED watcherVars
    /\ UNCHANGED <<dexVars, pureVars, legacyVars>>

StoreNext ==
    \/ \E w \in Watchers, v \in StoreValues : StoreCommit(w, v, "written")
    \/ StoreRestart

\* The same with writes that fail, for three watchers on one file that is
\* absent or malformed at the start.
FaultWatchers == {"buyback", "whale", "wco_dex"}

StoreFaultNext ==
    \/ \E w \in FaultWatchers, v \in StoreValues, outcome \in WriteOutcomes :
           StoreCommit(w, v, outcome)
    \/ StoreRestart

-----------------------------------------------------------------------------
(* DEX watcher (SpecDex): three polling paths over one processed cache *)

\* poll_and_alert polls the router, then the pools, then the recent transactions.
DexPaths == <<"router", "pool", "whale">>

DexIdle == [pc |-> "idle", path |-> 0, last_seen |-> None, batch |-> <<>>,
            idx |-> 1, newest |-> None]

DexInit ==
    /\ dvis = <<>>
    /\ dcur = [f \in {"router", "pool", "whale"} |-> None]
    /\ dcache = {}
    /\ dproc = DexIdle
    /\ dsent = [h \in 1..(MaxFeed + 1) |-> 0]
    /\ devicted = {}

-----------------------------------------------------------------------------
(* Initial state: a first boot with no state file *)

\* No function is being applied on its own.
NoCall == [pc |-> "none"]

\* The legacy bot is not running.
BurnOff == [pc |-> "off"]

\* Everything but the function call under study and the legacy bot.
InitRest ==
    /\ kind \in Pollers
    /\ enabled \in BOOLEAN
    /\ alerts_enabled = TRUE
    /\ chain = <<>>
    /\ cursor = None
    /\ subs = {}
    /\ processed = {}
    /\ disk = EmptyFile
    /\ init = IdleInit
    /\ proc = [p \in Procs |-> IdleProc]
    /\ attempted = {}
    /\ parity = [chat_id \in Chats |-> FALSE]
    /\ StoreInit
    /\ DexInit

InitCommon ==
    /\ call = NoCall
    /\ burn = BurnOff
    /\ sdoc = "absent"
    /\ InitRest

\* SpecStore leaves the poll model at rest.
InitStore ==
    /\ InitCommon
    /\ kind = "buyback"
    /\ enabled
    /\ env = [overlap |-> FALSE, chats |-> {1}]

\* The scheduler runs one cycle of a watcher at a time; one chat uses the bot.
BaseEnv == [overlap |-> FALSE, chats |-> {1}]

Init == InitCommon /\ env = BaseEnv

\* poll_and_* is invoked while a cycle of the same watcher is in flight.
InitOverlap == InitCommon /\ env = [BaseEnv EXCEPT !.overlap = TRUE]

-----------------------------------------------------------------------------
(* The explorer gains an item at the head of the feed *)

Items == [id : {None}, amt : {0}] \cup
         {[id |-> Len(chain) + 1, amt |-> a] : a \in Amounts}

Arrive(item) ==
    /\ Len(chain) < MaxFeed
    /\ chain' = Append(chain, item)
    /\ UNCHANGED <<kind, enabled, alerts_enabled, env, cursor, subs, processed, disk,
                   init, proc, attempted>>
    /\ UNCHANGED <<sideVars, parity>>

-----------------------------------------------------------------------------
(* ensure_initialized *)

\* Watchers other than buyback return at once when disabled or without channel.
InitGated(k) == k # "buyback"

\* latest_hash = items[0].get("hash") if items else None
LatestHash(items) == IF items = <<>> THEN None ELSE UniqueKey(items[1])

\* A commit that does not test the cursor again.
InitCursor_Overwrite(last_seen, latest_hash) ==
    IF latest_hash # None THEN latest_hash ELSE last_seen

\* An initialization that sets no baseline.
InitCursor_Unset(last_seen, latest_hash) == last_seen

\* if not self._last_seen_tx_hash and latest_hash: self._last_seen_tx_hash = latest_hash
InitCursor(last_seen, latest_hash) ==
    IF last_seen = None /\ latest_hash # None THEN latest_hash ELSE last_seen

InitStart ==
    /\ init.pc = "todo"
    /\ init' = IF InitGated(kind) /\ ~enabled
                  THEN [init EXCEPT !.pc = "done", !.result = "disabled"]
               ELSE IF cursor # None
                  THEN [init EXCEPT !.pc = "done", !.result = "already"]
               ELSE [init EXCEPT !.pc = "fetch", !.requested = InitPageSize]
    /\ UNCHANGED <<kind, enabled, alerts_enabled, env, chain, cursor, subs, processed, disk, proc, attempted>>
    /\ UNCHANGED <<sideVars, parity>>

InitFetched(outcome) ==
    /\ init.pc = "fetch"
    /\ IF outcome = "bad_json"
       THEN \* response.json() raises out of ensure_initialized and _post_init
            /\ init' = [init EXCEPT !.pc = "dead", !.result = "raised"]
            /\ UNCHANGED <<cursor, disk>>
       ELSE LET items == PayloadItems(outcome, Page(chain, init.requested))
                latest_hash == LatestHash(items)
                last_seen == InitCursor(cursor, latest_hash)
            IN /\ cursor' = last_seen
               /\ disk' = IF last_seen # cursor
                          THEN SaveState(kind, disk,
                                         SectionOf(kind, last_seen, subs, processed))
                          ELSE disk
               /\ init' = [init EXCEPT
                             !.pc = "done",
                             !.result = IF outcome # "ok" THEN "fetch_failed"
                                        ELSE IF items = <<>> THEN "empty"
                                        ELSE IF latest_hash = None THEN "no_key"
                                        ELSE "baseline"]
    /\ UNCHANGED <<kind, enabled, alerts_enabled, env, chain, subs, processed, proc,
                   attempted>>
    /\ UNCHANGED <<sideVars, parity>>

-----------------------------------------------------------------------------
(* poll_and_broadcast / poll_and_alert *)

SendOutcomes == {"ok", "transient", "permanent"}

\* The destinations of one alert: the subscriber snapshot, or the channel.
Destinations(k, subscribers) == IF k = "buyback" THEN subscribers ELSE {Channel}

\* The value the commit at the end of a cycle gives the cursor:
\* self._last_seen = newest (the router and liquidity polls keep the old value
\* when newest_key is None).
CommitCursor(last_seen, newest) == IF newest # None THEN newest ELSE last_seen

\* A commit inside the loop: the cursor is written before each send.
CommitDue_PerItem(batch, j) == TRUE

\* Where the commit stands: after the for loop over the batch, so it runs
\* once the loop has left the last item behind.
CommitDue(batch, j) == j > Len(batch)

\* A commit that writes back the subscribers the cycle started with.
SavedSubscribers_Snapshot(current, snapshot) == snapshot

\* _save_state at the commit serialises self._subscribers as it is then, not
\* the snapshot the cycle took at its start.
SavedSubscribers(current, snapshot) == current

\* The synchronous code from loop position i to the next await on a send, or
\* through the commit at the end of the cycle.  Gives the coroutine's locals,
\* the cursor and the state file.
RunLoop(loc, i, last_seen, subscribers, cache, file) ==
    LET j == NextToSend(kind, loc.batch, i, loc.wco_price, cache)
        raised == \E n \in i..(j - 1) :
                     n <= Len(loc.batch)
                     /\ ParseRaises(kind, loc.batch[n], loc.wco_price, cache)
        due == ~raised /\ CommitDue(loc.batch, j)
        committed == IF due THEN CommitCursor(last_seen, loc.newest) ELSE last_seen
    IN [loc |-> IF raised
                THEN [IdleProc EXCEPT !.fetch = loc.fetch, !.result = "raised"]
                ELSE IF j <= Len(loc.batch)
                THEN [loc EXCEPT !.pc = "send", !.idx = j,
                                 !.chats = Destinations(kind, loc.subscribers),
                                 !.failures = {}]
                ELSE [IdleProc EXCEPT !.fetch = loc.fetch, !.result = "committed"],
        cursor |-> committed,
        disk |-> IF due
                 THEN SaveState(kind, file,
                                SectionOf(kind, committed,
                                          SavedSubscribers(subscribers, loc.subscribers),
                                          cache))
                 ELSE file]

\* A poll that skips its checks.
PollGate_Open(k, flag, switch, subscribers) == "running"

\* The checks at the head of poll_and_*: the feature flag (and channel id), the
\* admin switch, the destination.
PollGate(k, flag, switch, subscribers) ==
    IF ~flag THEN "disabled"
    ELSE IF HasSwitch(k) /\ ~switch THEN "switched_off"
    ELSE IF Destinations(k, subscribers) = {} THEN "no_destination"
    ELSE "running"

\* The disabled check, the snapshot of cursor and subscribers, and the price.
PollStart(p, wco_price) ==
    /\ init.pc = "done"
    /\ proc[p].pc = "idle"
    /\ p = 1 \/ (env.overlap /\ Busy(1))
    /\ wco_price \in PriceOutcomes(kind)
    /\ LET gate == PollGate(kind, enabled, alerts_enabled, subs) IN
       proc' = [proc EXCEPT ![p] =
                  IF gate # "running"
                    THEN [IdleProc EXCEPT !.result = gate]
                  ELSE [IdleProc EXCEPT !.pc = "fetch", !.last_seen = cursor,
                                        !.subscribers = subs,
                                        !.wco_price = wco_price,
                                        !.result = "running"]]
    /\ UNCHANGED <<kind, enabled, alerts_enabled, env, chain, cursor, subs, processed, disk, init, attempted>>
    /\ UNCHANGED <<sideVars, parity>>

\* The page fetch returns: detect, then run the loop to its first send.
PollFetched(p, outcome) ==
    /\ proc[p].pc = "fetch"
    /\ IF outcome = "bad_json"
       THEN \* response.json() raises out of the cycle
            /\ proc' = [proc EXCEPT ![p] =
                          [IdleProc EXCEPT !.fetch = outcome, !.result = "raised"]]
            /\ UNCHANGED <<cursor, disk>>
       ELSE LET items == PayloadItems(outcome, Page(chain, PageSize))
                last_seen == proc[p].last_seen
                batch == Batch(kind, items, last_seen)
                loc == [proc[p] EXCEPT
                          !.fetch = outcome,
                          !.batch = batch,
                          !.newest = CandidateCursor(kind, items, last_seen)]
                run == RunLoop(loc, 1, cursor, subs, processed, disk)
            IN IF batch = <<>>
               THEN /\ proc' = [proc EXCEPT ![p] =
                                  [IdleProc EXCEPT
                                     !.fetch = outcome,
                                     !.result = IF outcome # "ok" THEN "fetch_failed"
                                                ELSE IF ExtractNewItems(items, last_seen) = <<>>
                                                  THEN "no_new"
                                                ELSE "no_events"]]
                    /\ UNCHANGED <<cursor, disk>>
               ELSE /\ proc' = [proc EXCEPT ![p] = run.loc]
                    /\ cursor' = run.cursor
                    /\ disk' = run.disk
    /\ UNCHANGED <<kind, enabled, alerts_enabled, env, chain, subs, processed, init,
                   attempted>>
    /\ UNCHANGED <<sideVars, parity>>

\* A loop that marks the item it is about to send next.
MarkedKey_Ahead(batch, idx) ==
    UniqueKey(batch[IF idx < Len(batch) THEN idx + 1 ELSE idx])

\* self._mark_processed(tx_hash), after the await on the send: the id of the
\* item whose send attempt has just returned.
MarkedKey(batch, idx) == UniqueKey(batch[idx])

\* A broadcast that stops at the first send that raises.
Remaining_AbortOnFailure(chat_ids, chat_id, outcome) ==
    IF outcome # "ok" THEN {} ELSE chat_ids \ {chat_id}

\* for chat_id in chat_ids: try: await bot.send_message(...) except Exception: ...
\* The loop goes on to the chats it has not yet tried, whatever the outcome.
Remaining(chat_ids, chat_id, outcome) == chat_ids \ {chat_id}

\* BuybackAlertService._broadcast, after its loop: every chat whose send raised
\* is removed from the subscribers.
AfterBroadcast(subscribers, failures) == subscribers \ failures

\* One bot.send_message returns; the code runs on to the next await or to the
\* end of the cycle.
Deliver(p, chat, outcome) ==
    /\ proc[p].pc = "send"
    /\ chat \in proc[p].chats
    /\ LET item == proc[p].batch[proc[p].idx]
           failures == IF kind = "buyback" /\ outcome # "ok"
                       THEN proc[p].failures \cup {chat}
                       ELSE proc[p].failures
           left == Remaining(proc[p].chats, chat, outcome)
           loc == [proc[p] EXCEPT !.chats = left, !.failures = failures]
       IN /\ attempted' = attempted \cup {UniqueKey(item)}
          /\ IF left # {}
             THEN /\ proc' = [proc EXCEPT ![p] = loc]
                  /\ UNCHANGED <<cursor, subs, processed, disk>>
             ELSE \E cache \in (IF HasCache(kind)
                                THEN MarkProcessedChoices(processed,
                                       MarkedKey(proc[p].batch, proc[p].idx))
                                ELSE {processed}) :
                    LET subscribers == IF kind = "buyback"
                                       THEN AfterBroadcast(subs, failures)
                                       ELSE subs
                        file == IF subscribers # subs
                                THEN SaveState(kind, disk,
                                       SectionOf(kind, cursor, subscribers, cache))
                                ELSE disk
                        run == RunLoop(loc, proc[p].idx + 1, cursor, subscribers,
                                       cache, file)
                    IN /\ proc' = [proc EXCEPT ![p] = run.loc]
                       /\ cursor' = run.cursor
                       /\ subs' = subscribers
                       /\ processed' = cache
                       /\ disk' = run.disk
    /\ UNCHANGED <<kind, enabled, alerts_enabled, env, chain, init>>
    /\ UNCHANGED <<sideVars, parity>>

-----------------------------------------------------------------------------
(* BuybackAlertService.toggle_subscription *)

\* def is_subscribed(self, chat_id): return chat_id in self._subscribers
IsSubscribed(subscribers, chat_id) == chat_id \in subscribers

\* The value toggle_subscription returns: False on the remove branch, True on
\* the add branch.
ToggleReturn(subscribers, chat_id) ==
    IF chat_id \in subscribers THEN FALSE ELSE TRUE

\* A toggle that only ever subscribes.
Toggled_AddOnly(subscribers, chat_id) == subscribers \cup {chat_id}

\* The subscriber set toggle_subscription leaves.
Toggled(subscribers, chat_id) ==
    IF chat_id \in subscribers THEN subscribers \ {chat_id}
    ELSE subscribers \cup {chat_id}

ToggleSubscription(chat_id) ==
    /\ kind = "buyback"
    /\ init.pc = "done"
    /\ subs' = Toggled(subs, chat_id)
    /\ disk' = SaveState(kind, disk, SectionOf(kind, cursor, subs', processed))
    /\ UNCHANGED <<kind, enabled, alerts_enabled, env, chain, cursor, processed, init,
                   proc, attempted>>
    /\ UNCHANGED sideVars
    /\ parity' = [parity EXCEPT ![chat_id] = ~@]

-----------------------------------------------------------------------------
(* WCODexAlertService.toggle_alerts / WSwapLiquidityAlertService.toggle_alerts *)

\* enable is None: flip; otherwise set.
SwitchValue(current, enable) ==
    IF enable = "toggle" THEN ~current ELSE (enable = "on")

\* The part after the admin check: set the switch and save, under the lock.
ToggleAlerts(enable) ==
    /\ HasSwitch(kind)
    /\ enabled
    /\ init.pc = "done"
    /\ alerts_enabled' = SwitchValue(alerts_enabled, enable)
    /\ disk' = SaveState(kind, disk,
                         [SectionOf(kind, cursor, subs, processed)
                            EXCEPT !.alerts_enabled = alerts_enabled'])
    /\ UNCHANGED <<kind, enabled, env, chain, cursor, subs, processed, init,
                   proc, attempted>>
    /\ UNCHANGED <<sideVars, parity>>

-----------------------------------------------------------------------------
(* Environment: the other watcher saves, the process restarts *)

SiblingSave ==
    /\ disk' = SaveState(Sibling(kind), disk, SiblingSection)
    /\ disk' # disk
    /\ UNCHANGED <<kind, enabled, alerts_enabled, env, chain, cursor, subs, processed,
                   init, proc, attempted>>
    /\ UNCHANGED <<sideVars, parity>>

\* The process dies at any point; __init__ of the new process runs _load_state.
Restart ==
    /\ cursor' = LoadCursor(kind, disk)
    /\ subs' = LoadSubscribers(kind, disk)
    /\ processed' \in LastEntries(LoadProcessed(kind, disk))
    /\ alerts_enabled' = LoadAlertsEnabled(kind, disk)
    /\ init' = IdleInit
    /\ proc' = [p \in Procs |-> IdleProc]
    /\ UNCHANGED <<kind, enabled, env, chain, disk, attempted>>
    /\ UNCHANGED <<sideVars, parity>>

-----------------------------------------------------------------------------

Next ==
    \/ \E item \in Items : Arrive(item)
    \/ InitStart
    \/ \E outcome \in FetchOutcomes : InitFetched(outcome)
    \/ \E p \in Procs, wco_price \in {NoPrice, Price} : PollStart(p, wco_price)
    \/ \E p \in Procs, outcome \in FetchOutcomes : PollFetched(p, outcome)
    \/ \E p \in Procs, chat \in env.chats \cup {Channel}, outcome \in SendOutcomes :
           Deliver(p, chat, outcome)
    \/ \E chat_id \in env.chats : ToggleSubscription(chat_id)
    \/ SiblingSave
    \/ Restart

Spec == Init /\ [][Next]_vars

\* Overlapping invocations within one run of the process.
NextOverlap ==
    \/ \E item \in Items : Arrive(item)
    \/ InitStart
    \/ \E outcome \in FetchOutcomes : InitFetched(outcome)
    \/ \E p \in Procs, wco_price \in {NoPrice, Price} : PollStart(p, wco_price)
    \/ \E p \in Procs, outcome \in FetchOutcomes : PollFetched(p, outcome)
    \/ \E p \in Procs, chat \in env.chats \cup {Channel}, outcome \in SendOutcomes :
           Deliver(p, chat, outcome)
    \/ \E chat_id \in env.chats : ToggleSubscription(chat_id)

SpecOverlap == InitOverlap /\ [][NextOverlap]_vars

SpecStore == InitStore /\ [][StoreNext]_vars

\* The file found at the first start may be malformed.
InitFaults ==
    /\ InitRest
    /\ call = NoCall
    /\ burn = BurnOff
    /\ kind = "buyback"
    /\ enabled
    /\ env = BaseEnv
    /\ sdoc \in {"absent", "malformed"}

SpecFaults == InitFaults /\ [][StoreFaultNext]_vars

(* The DEX watcher's poll cycle *)

\* The feed of one path, oldest first: the transactions it shows, each an
\* event above the path's threshold.
DexFeed(path) ==
    LET shown == SelectSeq([h \in 1..Len(dvis) |-> h], LAMBDA h : path \in dvis[h])
    IN [i \in 1..Len(shown) |-> [id |-> shown[i], amt |-> MinAmount]]

\* A transaction appears, visible through some of the paths.
DexArrive(paths) ==
    /\ Len(dvis) < MaxFeed
    /\ paths # {}
    /\ dvis' = Append(dvis, paths)
    /\ UNCHANGED <<dcur, dcache, dproc, dsent, devicted>>
    /\ UNCHANGED <<watcherVars, storeVars, pureVars, legacyVars>>

\* A path that does not consult the cache.
DexPasses_NoCache(tx_hash, cache) == TRUE

\* if tx_hash in self._processed_tx_hashes: continue
DexPasses(tx_hash, cache) == tx_hash \notin cache

RECURSIVE DexNextToSend(_, _, _)
DexNextToSend(batch, i, cache) ==
    IF i > Len(batch) THEN i
    ELSE IF DexPasses(batch[i], cache) THEN i
    ELSE DexNextToSend(batch, i + 1, cache)

\* Entering path number i: the snapshot of its cursor; past the last path the
\* cycle is over.
DexEnter(i, cur) ==
    IF i > Len(DexPaths) THEN DexIdle
    ELSE [DexIdle EXCEPT !.pc = "fetch", !.path = i, !.last_seen = cur[DexPaths[i]]]

\* The loop of one path from position i to its next send, or through its
\* commit into the next path.
DexRun(loc, i, cache, cur) ==
    LET j == DexNextToSend(loc.batch, i, cache) IN
    IF j <= Len(loc.batch)
    THEN [loc |-> [loc EXCEPT !.pc = "send", !.idx = j], cur |-> cur]
    ELSE LET committed == [cur EXCEPT ![DexPaths[loc.path]] =
                                         CommitCursor(@, loc.newest)]
         IN [loc |-> DexEnter(loc.path + 1, committed), cur |-> committed]

DexPollStart ==
    /\ dproc.pc = "idle"
    /\ dproc' = DexEnter(1, dcur)
    /\ UNCHANGED <<dvis, dcur, dcache, dsent, devicted>>
    /\ UNCHANGED <<watcherVars, storeVars, pureVars, legacyVars>>

DexFetched(outcome) ==
    /\ dproc.pc = "fetch"
    /\ IF outcome = "bad_json"
       THEN /\ dproc' = DexIdle
            /\ UNCHANGED dcur
       ELSE LET items == PayloadItems(outcome,
                                      Page(DexFeed(DexPaths[dproc.path]), PageSize))
                new_items == ExtractNewItems(items, dproc.last_seen)
                loc == [dproc EXCEPT
                          !.batch = [i \in 1..Len(new_items) |-> UniqueKey(new_items[i])],
                          !.newest = NewestHash(items, dproc.last_seen)]
                run == DexRun(loc, 1, dcache, dcur)
            IN IF new_items = <<>>
               THEN /\ dproc' = DexEnter(dproc.path + 1, dcur)
                    /\ UNCHANGED dcur
               ELSE /\ dproc' = run.loc
                    /\ dcur' = run.cur
    /\ UNCHANGED <<dvis, dcache, dsent, devicted>>
    /\ UNCHANGED <<watcherVars, storeVars, pureVars, legacyVars>>

\* _send_to_channel returns (it swallows every error); mark and go on.
DexSent ==
    /\ dproc.pc = "send"
    /\ LET tx_hash == dproc.batch[dproc.idx] IN
       \E cache \in MarkProcessedChoices(dcache, tx_hash) :
          LET run == DexRun(dproc, dproc.idx + 1, cache, dcur) IN
          /\ dsent' = [dsent EXCEPT ![tx_hash] = @ + 1]
          /\ dcache' = cache
          /\ devicted' = devicted \cup ((dcache \cup {tx_hash}) \ cache)
          /\ dproc' = run.loc
          /\ dcur' = run.cur
    /\ UNCHANGED dvis
    /\ UNCHANGED <<watcherVars, storeVars, pureVars, legacyVars>>

DexNext ==
    \/ \E paths \in SUBSET {"router", "pool", "whale"} : DexArrive(paths)
    \/ DexPollStart
    \/ \E outcome \in FetchOutcomes : DexFetched(outcome)
    \/ DexSent

SpecDex == InitStore /\ [][DexNext]_vars

\* One run of the process with the commands of its users and admins.
NextRun ==
    \/ \E item \in Items : Arrive(item)
    \/ InitStart
    \/ \E outcome \in FetchOutcomes : InitFetched(outcome)
    \/ \E p \in Procs, wco_price \in {NoPrice, Price} : PollStart(p, wco_price)
    \/ \E p \in Procs, outcome \in FetchOutcomes : PollFetched(p, outcome)
    \/ \E p \in Procs, chat \in env.chats \cup {Channel}, outcome \in SendOutcomes :
           Deliver(p, chat, outcome)
    \/ \E chat_id \in env.chats : ToggleSubscription(chat_id)
    \/ \E enable \in {"toggle", "on", "off"} : ToggleAlerts(enable)

SpecRun == Init /\ [][NextRun]_vars

\* The same across restarts of the process.
NextPersist ==
    \/ NextRun
    \/ Restart

SpecPersist == Init /\ [][NextPersist]_vars

\* The buyback watcher with two chats: broadcasts to several subscribers.
InitSubs ==
    /\ InitCommon
    /\ kind = "buyback"
    /\ enabled
    /\ env = [BaseEnv EXCEPT !.chats = Chats]

NextSubs ==
    \/ \E item \in Items : Arrive(item)
    \/ InitStart
    \/ \E outcome \in FetchOutcomes : InitFetched(outcome)
    \/ \E p \in Procs, wco_price \in {NoPrice} : PollStart(p, wco_price)
    \/ \E p \in Procs, outcome \in FetchOutcomes : PollFetched(p, outcome)
    \/ \E p \in Procs, chat \in env.chats, outcome \in SendOutcomes :
           Deliver(p, chat, outcome)
    \/ \E chat_id \in env.chats : ToggleSubscription(chat_id)

SpecSubs == InitSubs /\ [][NextSubs]_vars

\* The same, every delivery succeeding, across restarts of the process.
NextToggle ==
    \/ \E item \in Items : Arrive(item)
    \/ InitStart
    \/ \E outcome \in FetchOutcomes : InitFetched(outcome)
    \/ \E p \in Procs, wco_price \in {NoPrice} : PollStart(p, wco_price)
    \/ \E p \in Procs, outcome \in FetchOutcomes : PollFetched(p, outcome)
    \/ \E p \in Procs, chat \in env.chats : Deliver(p, chat, "ok")
    \/ \E chat_id \in env.chats : ToggleSubscription(chat_id)
    \/ Restart

SpecToggle == InitSubs /\ [][NextToggle]_vars

\* The channel watchers whose loop parses the value field, fed items whose
\* value is a number or NaN.
ParseItems == {[id |-> Len(chain) + 1, amt |-> a] : a \in {NaNAmount, MinAmount}}

InitParse ==
    /\ Init
    /\ kind \in {"exchange_flow", "wco_dex", "wswap_liquidity"}
    /\ enabled

NextParse ==
    \/ \E item \in ParseItems : Arrive(item)
    \/ InitStart
    \/ \E outcome \in FetchOutcomes : InitFetched(outcome)
    \/ \E p \in Procs, wco_price \in {NoPrice, Price} : PollStart(p, wco_price)
    \/ \E p \in Procs, outcome \in FetchOutcomes : PollFetched(p, outcome)
    \/ \E p \in Procs, outcome \in SendOutcomes : Deliver(p, Channel, outcome)

SpecParse == InitParse /\ [][NextParse]_vars

-----------------------------------------------------------------------------
(* Change detection applied to arbitrary pages (SpecDetect) *)

\* A page as the explorer returns it, newest first: the item at position i of
\* n carries the identifier first + n - i or none at all; an item without
\* identifier carries no amount.
DetectPages ==
    UNION {{page \in [1..n -> [id : 0..(PageSize + 1), amt : Amounts]] :
              \A i \in 1..n :
                 /\ page[i].id \in {None, first + n - i}
                 /\ page[i].id = None => page[i].amt = 0}
           : n \in 0..PageSize, first \in 1..2}

InitDetect ==
    /\ InitRest
    /\ sdoc = "absent"
    /\ burn = BurnOff
    /\ enabled
    /\ env = BaseEnv
    /\ call \in [pc : {"input"}, items : DetectPages, last_seen : 0..(PageSize + 1)]

\* The watcher's detect runs on the page with the cursor it is given.
Detect ==
    /\ call.pc = "input"
    /\ call' = [pc |-> "output",
                items |-> call.items,
                last_seen |-> call.last_seen,
                new_items |-> ExtractNewItems(call.items, call.last_seen),
                batch |-> Batch(kind, call.items, call.last_seen),
                newest |-> CandidateCursor(kind, call.items, call.last_seen)]
    /\ UNCHANGED <<watcherVars, storeVars, dexVars, legacyVars>>

SpecDetect == InitDetect /\ [][Detect]_vars

-----------------------------------------------------------------------------
(* The legacy bot: the OG88 burn filter applied to arbitrary transfers (SpecOg88) *)

\* config.OG88_TOKEN_ADDRESS, lowercased when the configuration is read.
OG88_TOKEN_ADDRESS == "0xd1841f"

\* What tx.get('token', {}).get('address', '') yields: the OG88 address in
\* lower, checksum or upper case, another token's address in two cases, or ''
\* when the transfer has no token or the token has no address.
TokenAddresses == {"0xd1841f", "0xD1841f", "0XD1841F", "0xother", "0xOther", ""}

Lower_Identity(address) == address

\* str.lower() on the addresses of the model.
Lower(address) ==
    CASE address \in {"0xD1841f", "0XD1841F"} -> "0xd1841f"
      [] address = "0xOther" -> "0xother"
      [] address \in {"0xEx", "0xEX"} -> "0xex"
      [] address = "0xA" -> "0xa"
      [] address = "0xPool" -> "0xpool"
      [] address = "0xLp" -> "0xlp"
      [] address = "0xRouter" -> "0xrouter"
      [] OTHER -> address

\* get_recent_og88_burns: None when get_address_token_transfers returned None,
\* otherwise the transfers of the OG88 token, in the order they were fetched.
GetRecentOg88Burns(fetched, transfers) ==
    IF ~fetched
    THEN [none |-> TRUE, items |-> <<>>]
    ELSE [none |-> FALSE,
          items |-> SelectSeq(transfers,
                              LAMBDA tx : Lower(tx.token_address) = OG88_TOKEN_ADDRESS)]

\* Up to PageSize transfers; the transfer at position i is of transaction i.
Og88Transfers ==
    UNION {{page \in [1..n -> [transaction_hash : 1..PageSize, token_address : TokenAddresses]] :
              \A i \in 1..n : page[i].transaction_hash = i}
           : n \in 0..PageSize}

InitOg88 ==
    /\ InitRest
    /\ sdoc = "absent"
    /\ burn = BurnOff
    /\ kind = "buyback"
    /\ enabled
    /\ env = BaseEnv
    /\ call \in [pc : {"input"}, fetched : {TRUE}, transfers : Og88Transfers]
                \cup {[pc |-> "input", fetched |-> FALSE, transfers |-> <<>>]}

\* One call of get_recent_og88_burns.
RecentOg88Burns ==
    /\ call.pc = "input"
    /\ call' = [pc |-> "output",
                fetched |-> call.fetched,
                transfers |-> call.transfers,
                returned |-> GetRecentOg88Burns(call.fetched, call.transfers)]
    /\ UNCHANGED <<watcherVars, storeVars, dexVars, legacyVars>>

SpecOg88 == InitOg88 /\ [][RecentOg88Burns]_vars

-----------------------------------------------------------------------------
(* The legacy bot: the burn monitor job, its broadcast and /burnwatch (SpecBurn) *)

\* The monitor job is not running; bot_data as main() sets it up when
\* last_hash is None and subscribers is empty.
BurnIdle(animation, last_hash, subscribers, result) ==
    [pc |-> "idle",
     animation |-> animation,          \* BURN_ALERT_ANIMATION_URL is set
     last_hash |-> last_hash,          \* burn_watch_state["last_hash"]
     subscribers |-> subscribers,      \* burn_watch_subscribers
     recent_burns |-> <<>>,            \* monitor_burn_wallet: hashes of recent_burns, newest first
     last_seen_hash |-> None,          \* monitor_burn_wallet: last_seen_hash
     new_events |-> <<>>,              \* monitor_burn_wallet: events not yet broadcast, oldest first
     alerts |-> <<>>,                  \* transactions broadcast_burn_alert was awaited with
     tx |-> None,                      \* broadcast_burn_alert: transaction
     chats |-> {},                     \* broadcast_burn_alert: list(subscribers)
     todo |-> {},                      \* broadcast_burn_alert: the chats of that list not yet reached
     chat_id |-> None,                 \* broadcast_burn_alert: chat_id
     sent |-> <<>>,                    \* bot.send_message / bot.send_animation calls of this run
     result |-> result]

\* The token transfers of the burn wallet as the explorer returns them,
\* newest first: up to PageSize transfers of the OG88 token or another one;
\* the hashes that are present descend, a transfer may carry none.
BurnTransfers ==
    UNION {{page \in [1..n -> [transaction_hash : 0..MaxFeed,
                               token_address : {"0xD1841f", "0xother"}]] :
              \A i, j \in 1..n :
                 (i < j /\ page[i].transaction_hash # None /\ page[j].transaction_hash # None)
                 => page[i].transaction_hash > page[j].transaction_hash}
           : n \in 0..PageSize}

\* The scan of monitor_burn_wallet: the hashes before the first one that is
\* missing or equal to last_seen_hash.
RECURSIVE ScanBurns(_, _)
ScanBurns(recent_burns, last_seen_hash) ==
    IF recent_burns = <<>> THEN <<>>
    ELSE IF Head(recent_burns) = None \/ Head(recent_burns) = last_seen_hash
         THEN <<>>
         ELSE <<Head(recent_burns)>> \o ScanBurns(Tail(recent_burns), last_seen_hash)

\* broadcast_burn_alert up to its first await, for each event in turn, and
\* the loop over list(subscribers) up to the next send_message; the order of
\* list(subscribers) is the set's.  The results are the states the job can
\* be suspended in, or idle once the last event is done.
RECURSIVE BroadcastBurnAlert(_), NextChat(_)
BroadcastBurnAlert(b) ==
    IF b.new_events = <<>>
    THEN {[b EXCEPT !.pc = "idle", !.result = "done", !.tx = None, !.chat_id = None]}
    ELSE NextChat([b EXCEPT !.tx = Head(b.new_events),
                            !.new_events = Tail(@),
                            !.alerts = Append(@, Head(b.new_events)),
                            !.chats = b.subscribers,
                            !.todo = b.subscribers])

NextChat(b) ==
    IF b.todo = {}
    THEN BroadcastBurnAlert(b)
    ELSE {[b EXCEPT !.pc = "message",
                    !.chat_id = c,
                    !.todo = @ \ {c},
                    !.sent = Append(@, [tx |-> b.tx, chat_id |-> c, method |-> "send_message"])]
          : c \in b.todo}

\* except Forbidden: subscribers.remove(chat_id), which raises KeyError out of
\* the job when the chat is no longer in the set.
Forbidden(b) ==
    IF b.chat_id \in b.subscribers
    THEN NextChat([b EXCEPT !.subscribers = @ \ {b.chat_id}])
    ELSE {[b EXCEPT !.pc = "idle", !.result = "raised"]}

\* The job fires: the gates, the scan, the new last_hash, and the first
\* broadcast up to its first send.
MonitorBurnWallet(fetched, transfers) ==
    /\ burn.pc = "idle"
    /\ LET idle == BurnIdle(burn.animation, burn.last_hash, burn.subscribers, "none")
           got == GetRecentOg88Burns(fetched, transfers)
           recent_burns == [i \in 1..Len(got.items) |-> got.items[i].transaction_hash]
           last_seen_hash == burn.last_hash
           new_events == ScanBurns(recent_burns, last_seen_hash)
           read == [idle EXCEPT !.recent_burns = recent_burns,
                                !.last_seen_hash = last_seen_hash]
       IN  IF burn.subscribers = {}
           THEN burn' = [idle EXCEPT !.result = "no_subscribers"]
           ELSE IF got.none \/ recent_burns = <<>>
           THEN burn' = [idle EXCEPT !.result = "no_burns"]
           ELSE IF last_seen_hash = None
           THEN burn' = [read EXCEPT !.last_hash = recent_burns[1], !.result = "initialized"]
           ELSE IF new_events = <<>>
           THEN burn' = [read EXCEPT !.result = "no_new"]
           ELSE burn' \in BroadcastBurnAlert([read EXCEPT !.last_hash = new_events[1],
                                                          !.new_events = Reverse(new_events)])
    /\ UNCHANGED <<watcherVars, storeVars, dexVars, pureVars>>

BurnSendOutcomes == {"ok", "forbidden", "error"}

\* await bot.send_message returns or raises.
SendMessageReturns(outcome) ==
    /\ burn.pc = "message"
    /\ CASE outcome = "ok" /\ burn.animation ->
              burn' = [burn EXCEPT !.pc = "animation",
                                   !.sent = Append(@, [tx |-> burn.tx, chat_id |-> burn.chat_id,
                                                       method |-> "send_animation"])]
         [] outcome = "ok" /\ ~burn.animation -> burn' \in NextChat(burn)
         [] outcome = "forbidden" -> burn' \in Forbidden(burn)
         [] OTHER -> burn' \in NextChat(burn)
    /\ UNCHANGED <<watcherVars, storeVars, dexVars, pureVars>>

\* await bot.send_animation returns or raises.
SendAnimationReturns(outcome) ==
    /\ burn.pc = "animation"
    /\ IF outcome = "forbidden"
       THEN burn' \in Forbidden(burn)
       ELSE burn' \in NextChat(burn)
    /\ UNCHANGED <<watcherVars, storeVars, dexVars, pureVars>>

\* /burnwatch and /burnwatch off, handled while the job is idle or suspended
\* in a send.
BurnwatchCommand(chat_id, action) ==
    /\ burn.pc \in {"idle", "message", "animation"}
    /\ burn' = [burn EXCEPT !.subscribers = IF action = "off" THEN @ \ {chat_id}
                                            ELSE @ \cup {chat_id}]
    /\ burn'.subscribers # burn.subscribers
    /\ UNCHANGED <<watcherVars, storeVars, dexVars, pureVars>>

InitBurn ==
    /\ InitRest
    /\ sdoc = "absent"
    /\ call = NoCall
    /\ kind = "buyback"
    /\ enabled
    /\ env = BaseEnv
    /\ burn \in {BurnIdle(animation, None, {}, "none") : animation \in BOOLEAN}

NextBurn ==
    \/ \E transfers \in BurnTransfers : MonitorBurnWallet(TRUE, transfers)
    \/ MonitorBurnWallet(FALSE, <<>>)
    \/ \E outcome \in BurnSendOutcomes : SendMessageReturns(outcome)
    \/ \E outcome \in BurnSendOutcomes : SendAnimationReturns(outcome)
    \/ \E chat_id \in Chats, action \in {"on", "off"} : BurnwatchCommand(chat_id, action)

SpecBurn == InitBurn /\ [][NextBurn]_vars

-----------------------------------------------------------------------------
(* Exchange-flow classification applied to arbitrary transfers (SpecFlow) *)

\* ex.address of a tracked exchange, as written in _exchanges.
ExchangeAddress == "0xEx"

\* What _get_hash gives for item["from"] / item["to"]: the exchange's address
\* in three letter cases, another address in two, a third one, or '' (None)
\* when the endpoint is missing.
FlowAddresses == {"0xex", "0xEx", "0xEX", "0xa", "0xA", "0xb", ""}

\* A direction test that leaves out the other endpoint.
IsInflow_AnySender(from_l, to_l, ex_addr) == to_l = ex_addr

\* is_inflow = to_l == ex_addr and from_l != ex_addr
IsInflow(from_l, to_l, ex_addr) == to_l = ex_addr /\ from_l # ex_addr

\* is_outflow = from_l == ex_addr and to_l != ex_addr
IsOutflow(from_l, to_l, ex_addr) == from_l = ex_addr /\ to_l # ex_addr

\* The body of the loop of poll_and_alert for one new item: the direction it
\* finds and the template it formats for the channel, "none" when the item is
\* left without alert.
ClassifyFlow(value, from_addr, to_addr) ==
    LET ex_addr == Lower(ExchangeAddress)
        from_l == Lower(from_addr)
        to_l == Lower(to_addr)
        is_inflow == IsInflow(from_l, to_l, ex_addr)
        is_outflow == IsOutflow(from_l, to_l, ex_addr)
    IN  IF value <= 0 \/ from_addr = "" \/ to_addr = ""
        THEN [step |-> "unparsed", is_inflow |-> FALSE, is_outflow |-> FALSE,
              template |-> "none"]
        ELSE IF ~(is_inflow \/ is_outflow)
        THEN [step |-> "ignored", is_inflow |-> is_inflow, is_outflow |-> is_outflow,
              template |-> "none"]
        ELSE IF value < MinAmount
        THEN [step |-> "below_threshold", is_inflow |-> is_inflow,
              is_outflow |-> is_outflow, template |-> "none"]
        ELSE [step |-> "sent", is_inflow |-> is_inflow, is_outflow |-> is_outflow,
              template |-> IF is_inflow THEN "inflow_template" ELSE "outflow_template"]

InitFlow ==
    /\ InitRest
    /\ sdoc = "absent"
    /\ burn = BurnOff
    /\ kind = "exchange_flow"
    /\ enabled
    /\ env = BaseEnv
    /\ call \in [pc : {"input"}, value : Amounts, from : FlowAddresses, to : FlowAddresses]

\* One new item goes through the loop body.
Classify ==
    /\ call.pc = "input"
    /\ call' = [pc |-> "output", value |-> call.value, from |-> call.from, to |-> call.to,
                flow |-> ClassifyFlow(call.value, call.from, call.to)]
    /\ UNCHANGED <<watcherVars, storeVars, dexVars, legacyVars>>

SpecFlow == InitFlow /\ [][Classify]_vars

-----------------------------------------------------------------------------
(* DEX pool classification applied to arbitrary transfers (SpecPool) *)

MinBuy == 1         \* settings.wco_dex_min_buy_wco, in model units
MinSell == 2        \* settings.wco_dex_min_sell_wco, in model units
MinLiquidity == 3   \* settings.wco_dex_min_liquidity_wco, in model units

ZERO_ADDRESS == "0x0"

\* pool.address as registered.
PoolAddress == "0xPool"

\* pool.lp_token_address: set for the default pool, None ("") for a pool that
\* comes from settings.wco_dex_pool_addresses.
LpTokenAddresses == {"0xLp", ""}

\* The endpoints of the native transfer on the pool's page.
PoolEndpoints == {"0xpool", "0xPool", "0xa", ""}

\* The token transfers a transaction holds: each of a token (the pool's LP
\* token or another one) from and to an address or the zero address.
TokenTransfers == [token : {"0xlp", "0xt"}, from : {ZERO_ADDRESS, "0xa"},
                   to : {ZERO_ADDRESS, "0xa"}]

\* At most two token transfers in one transaction.
TransferSets == {ts \in SUBSET TokenTransfers : Cardinality(ts) <= 2}

\* _check_liquidity_mint: False without LP token address; the token transfers
\* of the transaction are none when the client returned None; True when one
\* of them is of the LP token and comes from the zero address.
CheckLiquidityMint(lp_token_address, outcome, transfers) ==
    /\ lp_token_address # ""
    /\ outcome = "ok"
    /\ \E transfer \in transfers :
          /\ Lower(transfer.token) = Lower(lp_token_address)
          /\ Lower(transfer.from) = ZERO_ADDRESS

\* _check_liquidity_burn: the same for a transfer to the zero address.
CheckLiquidityBurn(lp_token_address, outcome, transfers) ==
    /\ lp_token_address # ""
    /\ outcome = "ok"
    /\ \E transfer \in transfers :
          /\ Lower(transfer.token) = Lower(lp_token_address)
          /\ Lower(transfer.to) = ZERO_ADDRESS

NoPoolEvent(step) == [step |-> step, event_type |-> "none", min_threshold |-> 0]

\* The body of the loop of _poll_pool for one new item that is not in the
\* cache: the event type it determines, the threshold it applies, and whether
\* it reaches _send_to_channel.
ClassifyPool(amount, from_addr, to_addr, lp_token_address, outcome, transfers) ==
    LET pool_addr_lower == Lower(PoolAddress)
        from_lower == Lower(from_addr)
        to_lower == Lower(to_addr)
        into == to_lower = pool_addr_lower /\ from_lower # pool_addr_lower
        out == from_lower = pool_addr_lower /\ to_lower # pool_addr_lower
        event_type ==
            IF into
            THEN (IF CheckLiquidityMint(lp_token_address, outcome, transfers)
                  THEN "LIQUIDITY_ADDED" ELSE "SELL")
            ELSE (IF CheckLiquidityBurn(lp_token_address, outcome, transfers)
                  THEN "LIQUIDITY_REMOVED" ELSE "BUY")
        min_threshold ==
            CASE event_type \in {"LIQUIDITY_ADDED", "LIQUIDITY_REMOVED"} -> MinLiquidity
              [] event_type = "SELL" -> MinSell
              [] OTHER -> MinBuy
    IN  IF amount <= 0 \/ from_addr = "" \/ to_addr = ""
        THEN NoPoolEvent("unparsed")
        ELSE IF ~(into \/ out)
        THEN NoPoolEvent("ignored")
        ELSE IF lp_token_address # "" /\ outcome = "bad_json"
        THEN NoPoolEvent("raised")
        ELSE [step |-> IF amount < min_threshold THEN "below_threshold" ELSE "sent",
              event_type |-> event_type,
              min_threshold |-> min_threshold]

InitPool ==
    /\ InitRest
    /\ sdoc = "absent"
    /\ burn = BurnOff
    /\ kind = "wco_dex"
    /\ enabled
    /\ env = BaseEnv
    /\ call \in [pc : {"input"}, amount : 0..MinLiquidity,
                 from : PoolEndpoints, to : PoolEndpoints,
                 lp_token_address : LpTokenAddresses,
                 outcome : FetchOutcomes, transfers : TransferSets]

\* One new item of a pool's page goes through the loop body.
PollPoolItem ==
    /\ call.pc = "input"
    /\ call' = [pc |-> "output", amount |-> call.amount, from |-> call.from, to |-> call.to,
                lp_token_address |-> call.lp_token_address,
                outcome |-> call.outcome, transfers |-> call.transfers,
                event |-> ClassifyPool(call.amount, call.from, call.to,
                                       call.lp_token_address, call.outcome, call.transfers)]
    /\ UNCHANGED <<watcherVars, storeVars, dexVars, legacyVars>>

SpecPool == InitPool /\ [][PollPoolItem]_vars

-----------------------------------------------------------------------------
(* DEX whale transfers: the filter applied to arbitrary transactions (SpecWhale) *)

WhaleThreshold == 2   \* settings.wco_dex_whale_threshold_wco, in model units

\* settings.wswap_router_address as configured.
RouterAddress == "0xRouter"

\* self._pool_addresses_lower | self._exchange_addresses_lower | {router.lower()}
ExcludedAddresses == {Lower(PoolAddress)} \cup {"0xex"} \cup {Lower(RouterAddress)}

\* The endpoints of a recent transaction: a pool, an exchange or the router
\* in lower or mixed case, two wallets, or a missing endpoint.
WhaleEndpoints == {"0xpool", "0xPool", "0xex", "0xEx", "0xrouter", "0xRouter",
                   "0xa", "0xA", "0xb", ""}

\* item["tx_types"]
TxTypes == {{}, {"coin_transfer"}, {"coin_transfer", "contract_call"}}

\* An exclusion that looks at the sender only.
Excluded_SenderOnly(from_lower, to_lower) == from_lower \in ExcludedAddresses

\* if from_lower in excluded_addresses or to_lower in excluded_addresses: continue
Excluded(from_lower, to_lower) ==
    from_lower \in ExcludedAddresses \/ to_lower \in ExcludedAddresses

\* The body of the loop of _poll_whale_transfers for one new transaction that
\* is not in the cache: the step that drops it, or "sent" when it goes to the
\* channel as a WHALE_MOVE.
WhaleMove(amount, from_addr, to_addr, tx_types) ==
    IF amount <= 0 THEN "unparsed"
    ELSE IF amount < WhaleThreshold THEN "below_threshold"
    ELSE IF from_addr = "" \/ to_addr = "" THEN "no_endpoint"
    ELSE IF Excluded(Lower(from_addr), Lower(to_addr)) THEN "excluded"
    ELSE IF "contract_call" \in tx_types THEN "contract_call"
    ELSE "sent"

InitWhale ==
    /\ InitRest
    /\ sdoc = "absent"
    /\ burn = BurnOff
    /\ kind = "wco_dex"
    /\ enabled
    /\ env = BaseEnv
    /\ call \in [pc : {"input"}, amount : 0..(WhaleThreshold + 1),
                 from : WhaleEndpoints, to : WhaleEndpoints, tx_types : TxTypes]

\* One new transaction goes through the loop body.
PollWhaleItem ==
    /\ call.pc = "input"
    /\ call' = [pc |-> "output", amount |-> call.amount, from |-> call.from,
                to |-> call.to, tx_types |-> call.tx_types,
                step |-> WhaleMove(call.amount, call.from, call.to, call.tx_types)]
    /\ UNCHANGED <<watcherVars, storeVars, dexVars, legacyVars>>

SpecWhale == InitWhale /\ [][PollWhaleItem]_vars

-----------------------------------------------------------------------------
(* The scheduler keeps going (SpecLive) *)

\* _post_init runs ensure_initialized to its end, run_repeating keeps starting
\* cycles, awaited fetches and sends return, and the fetch of a page succeeds
\* again and again.
Fairness ==
    /\ WF_vars(InitStart)
    /\ WF_vars(\E outcome \in FetchOutcomes : InitFetched(outcome))
    /\ WF_vars(\E wco_price \in {NoPrice, Price} : PollStart(1, wco_price))
    /\ WF_vars(\E outcome \in FetchOutcomes : PollFetched(1, outcome))
    /\ SF_vars(PollFetched(1, "ok"))
    /\ WF_vars(\E outcome \in SendOutcomes : Deliver(1, Channel, outcome))

SpecLive == InitParse /\ [][NextParse]_vars /\ Fairness

-----------------------------------------------------------------------------
(* The lock of a watcher and the coroutines that take it (SpecLock) *)

\* The coroutines of one watcher on the event loop at a time.
Tasks == {1, 2}
NoTask == 0

\* Statements that suspend the coroutine: an explorer call, a Telegram send,
\* the Telegram get_chat_member of is_admin.
Awaits == {"fetch", "send", "get_chat_member"}

\* Statements that change the cursor, the subscriber set, the cache or the
\* switch, and _save_state.
Mutations == {"set_last_seen", "set_subscribers", "mark_processed",
              "set_alerts_enabled", "save_state"}

\* `async with self._lock:` around the statements of a block.
Locked(block) == <<"acquire">> \o block \o <<"release">>

\* toggle_subscription: add or remove, save.
ToggleSubscriptionProgram == Locked(<<"set_subscribers", "save_state">>)

\* ensure_initialized of the buyback watcher and the router part of the DEX
\* one: test the cursor, fetch one item, test again and set.
EnsureInitializedProgram(already, latest) ==
    Locked(<<"read">>) \o
    (IF already THEN <<>>
     ELSE <<"fetch">> \o
          Locked(IF latest THEN <<"set_last_seen", "save_state">> ELSE <<>>))

\* The same without the lock around the commit.
BroadcastProgram_NoLock(failures) ==
    <<"send">> \o
    (IF failures THEN <<"set_subscribers", "save_state">> ELSE <<>>)

\* _broadcast: send, then drop the chats whose send failed.
BroadcastProgram(failures) ==
    <<"send">> \o
    (IF failures THEN Locked(<<"set_subscribers", "save_state">>) ELSE <<>>)

\* poll_and_broadcast: snapshot, fetch, broadcast, commit.
PollAndBroadcastProgram(new, failures) ==
    Locked(<<"read">>) \o <<"fetch">> \o
    (IF new
     THEN BroadcastProgram(failures) \o Locked(<<"set_last_seen", "save_state">>)
     ELSE <<>>)

\* _poll_router_buys: snapshot, fetch, per item test the cache, send and
\* mark, then commit.
PollRouterBuysProgram(new, sent) ==
    Locked(<<"read">>) \o <<"fetch">> \o
    (IF new
     THEN Locked(<<"read">>) \o
          (IF sent THEN <<"send">> \o Locked(<<"mark_processed">>) ELSE <<>>) \o
          Locked(<<"set_last_seen", "save_state">>)
     ELSE <<>>)

\* toggle_alerts behind is_admin.
ToggleAlertsProgram(is_admin) ==
    <<"get_chat_member">> \o
    (IF is_admin THEN Locked(<<"set_alerts_enabled", "save_state">>) ELSE <<>>)

\* What the handlers and jobs of a watcher can start.
Programs(k) ==
    IF k = "buyback"
    THEN {ToggleSubscriptionProgram} \cup
         {EnsureInitializedProgram(a, l) : a, l \in BOOLEAN} \cup
         {PollAndBroadcastProgram(n, f) : n, f \in BOOLEAN}
    ELSE {EnsureInitializedProgram(a, l) : a, l \in BOOLEAN} \cup
         {PollRouterBuysProgram(n, s) : n, s \in BOOLEAN} \cup
         {ToggleAlertsProgram(a) : a \in BOOLEAN}

Idle == [prog |-> <<>>, at |-> 1]

Finished(task) == task.at > Len(task.prog)

InitLock ==
    /\ InitRest
    /\ sdoc = "absent"
    /\ burn = BurnOff
    /\ kind \in {"buyback", "wco_dex"}
    /\ enabled
    /\ env = BaseEnv
    /\ call = [pc |-> "lock", holder |-> NoTask, running |-> NoTask,
               task |-> [t \in Tasks |-> Idle],
               op |-> "none", by |-> NoTask, held |-> FALSE]

\* A handler or a job is called: the event loop has a new coroutine.
Spawn(t, prog) ==
    /\ call.pc = "lock"
    /\ Finished(call.task[t])
    /\ call' = [call EXCEPT !.task[t] = [prog |-> prog, at |-> 1]]
    /\ UNCHANGED <<watcherVars, storeVars, dexVars, legacyVars>>

\* The event loop runs one coroutine at a time: task t executes its next
\* statement when no other coroutine is running.  An await hands the loop
\* back, so does the end of the coroutine, and so does an acquire that finds
\* the lock taken.
Step(t) ==
    /\ call.pc = "lock"
    /\ call.running \in {NoTask, t}
    /\ ~Finished(call.task[t])
    /\ LET op == call.task[t].prog[call.task[t].at]
           last == call.task[t].at = Len(call.task[t].prog)
       IN  IF op = "acquire" /\ call.holder # NoTask
           THEN /\ call.running = t
                /\ call' = [call EXCEPT !.running = NoTask]
           ELSE call' = [call EXCEPT
                    !.task[t].at = @ + 1,
                    !.running = IF op \in Awaits \/ last THEN NoTask ELSE t,
                    !.holder = CASE op = "acquire" -> t
                                 [] op = "release" -> NoTask
                                 [] OTHER -> @,
                    !.op = op,
                    !.by = t,
                    !.held = (call.holder = t)]
    /\ UNCHANGED <<watcherVars, storeVars, dexVars, legacyVars>>

NextLock ==
    \/ \E t \in Tasks : \E prog \in Programs(kind) : Spawn(t, prog)
    \/ \E t \in Tasks : Step(t)

SpecLock == InitLock /\ [][NextLock]_vars

-----------------------------------------------------------------------------
(* ensure_initialized next to another coroutine of the watcher (SpecEnsure) *)

\* The feeds the explorer can hold when the process starts.
Feeds ==
    UNION {{feed \in [1..n -> [id : 0..MaxFeed, amt : Amounts]] :
              \A i \in 1..n :
                 /\ feed[i].id \in {None, i}
                 /\ feed[i].id = None => feed[i].amt = 0}
           : n \in 0..MaxFeed}

InitEnsure ==
    /\ call = NoCall
    /\ burn = BurnOff
    /\ sdoc = "absent"
    /\ kind \in Pollers
    /\ enabled \in BOOLEAN
    /\ alerts_enabled = TRUE
    /\ chain \in Feeds
    /\ cursor = None
    /\ subs = {}
    /\ processed = {}
    /\ disk = EmptyFile
    /\ init = IdleInit
    /\ proc = [p \in Procs |-> IdleProc]
    /\ attempted = {}
    /\ parity = [chat_id \in Chats |-> FALSE]
    /\ StoreInit
    /\ DexInit
    /\ env = BaseEnv

\* While ensure_initialized awaits its fetch, a cycle of the same watcher
\* reaches its commit: under the lock it sets the cursor to the newest key of
\* the page it fetched and saves.
CommitElsewhere(newest_hash) ==
    /\ init.pc = "fetch"
    /\ enabled
    /\ \E i \in 1..Len(chain) : UniqueKey(chain[i]) = newest_hash
    /\ newest_hash # None
    /\ cursor' = newest_hash
    /\ disk' = SaveState(kind, disk, SectionOf(kind, newest_hash, subs, processed))
    /\ UNCHANGED <<kind, enabled, alerts_enabled, env, chain, subs, processed, init,
                   proc, attempted>>
    /\ UNCHANGED <<sideVars, parity>>

NextEnsure ==
    \/ InitStart
    \/ \E outcome \in FetchOutcomes : InitFetched(outcome)
    \/ \E newest_hash \in 1..MaxFeed : CommitElsewhere(newest_hash)
    \/ Restart

SpecEnsure == InitEnsure /\ [][NextEnsure]_vars

-----------------------------------------------------------------------------
(* toggle_alerts with its admin check (SpecAdmin) *)

\* settings.*_alert_channel_id: unset or a channel.  A watcher that runs has
\* its channel.
AlertChannels == {"", "@channel"}

ChannelSettings(is_enabled) == IF is_enabled THEN {"@channel"} ELSE AlertChannels

\* What bot.get_chat_member yields: the status of the member, or a
\* TelegramError.
MemberLookups == {"creator", "administrator", "member", "left", "telegram_error"}

\* A check that lets every member of the channel through.
IsAdmin_AnyMember(member) == member \in {"creator", "administrator", "member"}

\* is_admin: member.status in (ADMINISTRATOR, OWNER), False on TelegramError.
IsAdmin(member) == member \in {"administrator", "creator"}

\* toggle_alerts(bot, user_id, enable): no channel, or no admin: return False;
\* otherwise set the switch and save under the lock, return True.
ToggleAlertsCommand(channel, member, enable) ==
    /\ HasSwitch(kind)
    /\ init.pc = "done"
    /\ IF channel = "" \/ ~IsAdmin(member)
       THEN /\ call' = [pc |-> "toggle_alerts", channel |-> channel,
                        member |-> member, enable |-> enable, success |-> FALSE]
            /\ UNCHANGED <<alerts_enabled, disk>>
       ELSE /\ call' = [pc |-> "toggle_alerts", channel |-> channel,
                        member |-> member, enable |-> enable, success |-> TRUE]
            /\ alerts_enabled' = SwitchValue(alerts_enabled, enable)
            /\ disk' = SaveState(kind, disk,
                                 [SectionOf(kind, cursor, subs, processed)
                                    EXCEPT !.alerts_enabled = alerts_enabled'])
    /\ UNCHANGED <<kind, enabled, env, chain, cursor, subs, processed, init,
                   proc, attempted>>
    /\ UNCHANGED <<storeVars, dexVars, legacyVars, parity>>

InitAdmin ==
    /\ Init
    /\ HasSwitch(kind)

\* One run of a switchable watcher on a feed of alertable items, one cycle at a
\* time and every send succeeding, with the /dexalerts and /liquidityalerts commands of admins and
\* other users.
NextAdmin ==
    \/ \E item \in Items : item.amt = MinAmount /\ Arrive(item)
    \/ InitStart
    \/ \E outcome \in FetchOutcomes : InitFetched(outcome)
    \/ PollStart(1, NoPrice)
    \/ \E outcome \in FetchOutcomes : PollFetched(1, outcome)
    \/ Deliver(1, Channel, "ok")
    \/ \E channel \in ChannelSettings(enabled), member \in MemberLookups,
          enable \in {"toggle", "on", "off"} :
           ToggleAlertsCommand(channel, member, enable)

SpecAdmin == InitAdmin /\ [][NextAdmin]_vars

-----------------------------------------------------------------------------
(* Properties *)

\* Steps of the coroutines, read off a pair of states.  Restart puts init back
\* to "todo", so a step that keeps init at "done" belongs to a coroutine.
FetchReturns(p) ==
    proc[p].pc = "fetch" /\ proc'[p].pc # "fetch" /\ init'.pc = "done"

InitFetchReturns == init.pc = "fetch" /\ init'.pc \in {"done", "dead"}

NewestOnFeed == UniqueKey(chain[Len(chain)])

PageIds(page) == {UniqueKey(page[i]) : i \in 1..Len(page)} \ {None}

\* The items of a newest-first page that stand before identifier c.
Before(page, c) ==
    {page[j] : j \in {j \in 1..Len(page) : \A i \in 1..j : UniqueKey(page[i]) # c}}

\* Oldest first: identifiers are feed positions.
Ascending(seq) ==
    \A i, j \in 1..Len(seq) : i < j => UniqueKey(seq[i]) < UniqueKey(seq[j])

\* C1 (as claimed).  Section isolation: whatever a watcher last saved to the
\* shared state file is what a reload gives it back, no matter which other
\* watchers (buyback, whale, exchange_flow, wco_dex, wswap_liquidity,
\* daily_report) saved after it.
C1_SectionIsolation ==
    \A w \in Watchers :
        smem[w] # None => (sfile[w].present /\ LoadCursor(w, sfile) = smem[w])

\* C2 (as claimed).  No alert on pre-existing history: a poll cycle that took
\* its snapshot while the cursor was absent never hands an item of its page to
\* delivery.
C2_NoAlertWithoutCursor ==
    \A p \in Procs : proc[p].pc = "send" => proc[p].last_seen # None

C4_NoReplay ==
    [][\A p \in Procs :
        (/\ FetchReturns(p)
         /\ proc'[p].fetch = "ok"
         /\ proc[p].last_seen # None
         /\ cursor = proc[p].last_seen
         /\ LoadCursor(kind, disk) = cursor
         /\ chain # <<>>
         /\ NewestOnFeed = proc[p].last_seen)
        => /\ proc'[p].pc = "idle"
           /\ attempted' = attempted
           /\ cursor' = cursor
           /\ LoadCursor(kind, disk') = cursor]_vars

\* The watcher was constructed from a file holding the cursor, and its poll
\* found the cursor at the head of the page.
C4_Witness ==
    /\ init.result = "already"
    /\ proc[1].result = "no_new"
    /\ proc[1].fetch = "ok"
    /\ cursor # None
    /\ LoadCursor(kind, disk) = cursor
    /\ chain # <<>>
    /\ NewestOnFeed = cursor

\* C5.  Chronological emission: for a cursor C on the newest-first page,
\* detect returns exactly the identifiable items standing before C, oldest
\* first; the batch of a cycle is oldest first and the loop only moves forward
\* in it.
C5_Chronological ==
    /\ [](\A c \in PageIds(Page(chain, PageSize)) :
            LET page == Page(chain, PageSize)
                out == ExtractNewItems(page, c)
            IN /\ SeqToSet(out) = {it \in Before(page, c) : UniqueKey(it) # None}
               /\ Ascending(out))
    /\ [](\A p \in Procs : Ascending(proc[p].batch))
    /\ [][\A p \in Procs :
            (proc[p].pc = "send" /\ proc'[p].pc = "send")
            => proc'[p].idx >= proc[p].idx]_vars

\* The second alert of a cycle whose cursor is on the page is being sent.
C5_Witness ==
    \E p \in Procs :
        /\ proc[p].pc = "send"
        /\ proc[p].idx = 2
        /\ proc[p].last_seen \in PageIds(Page(chain, PageSize))
        /\ UniqueKey(proc[p].batch[1]) \in attempted

\* C6 (as claimed), for the cycles that end at the return of the fetch: when
\* the scan collected at least one new item, the cursor is afterwards the
\* identifier of the newest identifiable item of the page, also when no item
\* of the page is an event or produces an alert.
C6_CursorIsNewestOnPage ==
    [][\A p \in Procs :
        (/\ FetchReturns(p)
         /\ proc'[p].fetch = "ok"
         /\ proc'[p].pc = "idle"
         /\ ExtractNewItems(Page(chain, PageSize), proc[p].last_seen) # <<>>)
        => cursor' = NewestHash(Page(chain, PageSize), proc[p].last_seen)]_vars

\* C7 (as claimed).  Threshold exclusion: no item whose amount is below the
\* configured minimum is handed to delivery, with or without a WCO price.
C7_BelowMinimumNeverSent ==
    \A p \in Procs :
        proc[p].pc = "send" => proc[p].batch[proc[p].idx].amt >= MinAmount

\* C8.  Commit after delivery: while a cycle is delivering its batch the cursor
\* in memory is still the one the cycle started from, and the cursor in the
\* file is older than every qualifying item of the batch that has had no
\* delivery attempt.
C8_CommitAfterDelivery ==
    \A p \in Procs :
        proc[p].pc = "send" =>
            /\ cursor = proc[p].last_seen
            /\ \A j \in proc[p].idx..Len(proc[p].batch) :
                  (/\ Passes(kind, proc[p].batch[j], proc[p].wco_price, processed)
                   /\ UniqueKey(proc[p].batch[j]) \notin attempted)
                  => LoadCursor(kind, disk) < UniqueKey(proc[p].batch[j])

\* One alert of the batch is out, the next has had no attempt, and the file
\* still holds the cursor the cycle started from.
C8_Witness ==
    \E p \in Procs :
        /\ proc[p].pc = "send"
        /\ proc[p].idx = 2
        /\ UniqueKey(proc[p].batch[1]) \in attempted
        /\ UniqueKey(proc[p].batch[2]) \notin attempted
        /\ proc[p].last_seen # None
        /\ LoadCursor(kind, disk) = proc[p].last_seen

\* C9 (as claimed).  Reentrancy guard: two poll cycles of one watcher are never
\* both between reading the cursor and committing it.
C9_NoOverlap == ~(Busy(1) /\ Busy(2))

\* C10.  Fetch failure: a cycle whose page fetch fails (the client returns
\* None, or the body does not decode) ends there, sends nothing, and leaves
\* the cursor, the subscribers, the processed cache and the file unchanged.
C10_FetchFailure ==
    [][\A p \in Procs :
        (FetchReturns(p) /\ proc'[p].fetch \in {"http_error", "bad_json"})
        => /\ proc'[p].pc = "idle"
           /\ attempted' = attempted
           /\ cursor' = cursor
           /\ subs' = subs
           /\ processed' = processed
           /\ disk' = disk]_vars

\* A fetch failed while the feed held an item newer than the cursor.
C10_Witness ==
    \E p \in Procs :
        /\ proc[p].fetch = "http_error"
        /\ proc[p].result = "fetch_failed"
        /\ cursor # None
        /\ NewestHash(Page(chain, PageSize), cursor) # None

\* C11 (as claimed).  No cycle propagates a fault: whatever the upstream call
\* or the delivery does, poll_and_* (and with it job_callback, which only
\* awaits it) returns normally.
C11_CallbackReturns ==
    \A p \in Procs : proc[p].result # "raised"

\* C12.  Disabled check: a poll invoked while the feature flag is off (or the
\* channel unset), the admin switch is off, or the subscriber set is empty
\* returns at once: no price or page request is made, and the cursor, the
\* processed cache, the subscribers and the state file are unchanged.
C12_DisabledCheck ==
    [][\A p \in Procs :
        (/\ proc[p].pc = "idle"
         /\ proc'[p] # proc[p]
         /\ init'.pc = "done"
         /\ \/ ~enabled
            \/ HasSwitch(kind) /\ ~alerts_enabled
            \/ Destinations(kind, subs) = {})
        => /\ proc'[p].pc = "idle"
           /\ proc'[p].fetch = "none"
           /\ proc'[p].wco_price = NoPrice
           /\ cursor' = cursor
           /\ processed' = processed
           /\ subs' = subs
           /\ disk' = disk]_vars

\* A poll returned at the admin switch while the feed held a new item.
C12_Witness ==
    \E p \in Procs :
        /\ proc[p].result = "switched_off"
        /\ ~alerts_enabled
        /\ cursor # None
        /\ NewestHash(Page(chain, PageSize), cursor) # None

\* The loop of coroutine p leaves the item it was sending behind in this step:
\* its send attempt returned and the code ran on.
SendReturns(p) ==
    /\ proc[p].pc = "send"
    /\ init'.pc = "done"
    /\ proc'[p].pc = "idle" \/ proc'[p].idx > proc[p].idx

\* C13 (as claimed), for the id just marked: when marking an id pushes the
\* processed cache above its maximum, the entries removed are older ones, so
\* the id just marked is resident after the mark.
C13_MarkedStaysResident ==
    [][\A p \in Procs :
        (SendReturns(p) /\ HasCache(kind))
        => UniqueKey(proc[p].batch[proc[p].idx]) \in processed']_vars

\* C14.  Bounded dedup cache: in every state, also right after the state was
\* loaded and after every mark, the processed cache holds at most its maximum
\* number of ids, and so does the list in the state file.
C14_BoundedCache ==
    /\ Cardinality(processed) <= MaxCache
    /\ Cardinality(disk[kind].processed) <= MaxCache

\* A restart has just loaded a full cache, after more ids were marked than the
\* cache can hold.
C14_Witness ==
    /\ HasCache(kind)
    /\ init.pc = "todo"
    /\ Cardinality(processed) = MaxCache
    /\ Cardinality(attempted) > MaxCache

\* C15.  Cache discipline: an item the loop is sending is not in the processed
\* cache (the cache was consulted before the send and the id is inserted only
\* after the send attempt has returned), and every id in the cache, in memory
\* and in the state file, has had a send attempt.
C15_MarkAfterSend ==
    /\ \A p \in Procs :
          (HasCache(kind) /\ proc[p].pc = "send")
          => UniqueKey(proc[p].batch[proc[p].idx]) \notin processed
    /\ processed \subseteq attempted
    /\ disk[kind].processed \subseteq attempted

\* The second item of a batch is being sent while the first is marked.
C15_Witness ==
    \E p \in Procs :
        /\ HasCache(kind)
        /\ proc[p].pc = "send"
        /\ proc[p].idx = 2
        /\ UniqueKey(proc[p].batch[1]) \in processed
        /\ UniqueKey(proc[p].batch[2]) \notin attempted

\* C16: within the DEX watcher a transaction shown by several polling paths
\* (router, pool, whale scan) is alerted at most once for as long as its hash
\* stays in the processed cache: a path never sends a hash that is in the
\* cache, every hash in the cache has been alerted, and a hash that no mark
\* has evicted has at most one send.
C16_CrossSourceDedup ==
    /\ \A h \in 1..Len(dvis) : h \notin devicted => dsent[h] <= 1
    /\ \A h \in dcache : dsent[h] >= 1
    /\ dproc.pc = "send" => dproc.batch[dproc.idx] \notin dcache

\* A transaction shown by the router and by the whale scan, alerted once and
\* still cached, with both paths' cursors committed at or past it.
C16_Witness ==
    \E h \in 1..Len(dvis) :
        /\ {"router", "whale"} \subseteq dvis[h]
        /\ dsent[h] = 1
        /\ h \in dcache
        /\ h \notin devicted
        /\ dcur["router"] # None /\ dcur["router"] >= h
        /\ dcur["whale"] # None /\ dcur["whale"] >= h

\* C17: a send to a buyback subscriber that fails with a transient error
\* (timeout, rate limit, network error) leaves that subscriber in the set, in
\* memory and in the state file.
C17_TransientKeepsSubscriber ==
    [][\A p \in Procs, chat \in env.chats :
        (kind = "buyback" /\ Deliver(p, chat, "transient"))
        => /\ chat \in subs => chat \in subs'
           /\ chat \in LoadSubscribers(kind, disk)
                => chat \in LoadSubscribers(kind, disk')]_vars

\* C18: in a broadcast every chat of the cycle's subscriber snapshot gets its
\* one send attempt whatever the other attempts did: each send that returns,
\* with any outcome, leaves exactly the untried chats pending for the same
\* alert; after the last chat the loop goes on to the next event that reaches
\* the minimum, again addressed to the whole snapshot, or, with no such event
\* left, commits the cursor in memory and in the state file.
C18_DeliveryIsolation ==
    [][\A p \in Procs :
        LET loc == proc[p]
            nxt == proc'[p]
        IN /\ (loc.pc = "fetch" /\ nxt.pc = "send")
                => nxt.chats = nxt.subscribers /\ nxt.chats # {}
           /\ (loc.pc = "send" /\ nxt # loc)
                => \E chat \in loc.chats :
                     IF loc.chats # {chat}
                     THEN /\ nxt.pc = "send"
                          /\ nxt.idx = loc.idx
                          /\ nxt.chats = loc.chats \ {chat}
                          /\ nxt.subscribers = loc.subscribers
                     ELSE \/ /\ nxt.pc = "send"
                             /\ nxt.idx > loc.idx
                             /\ nxt.chats = loc.subscribers
                             /\ nxt.subscribers = loc.subscribers
                             /\ \A i \in (loc.idx + 1)..(nxt.idx - 1) :
                                    loc.batch[i].amt < MinAmount
                          \/ /\ nxt.pc = "idle"
                             /\ nxt.result = "committed"
                             /\ \A i \in (loc.idx + 1)..Len(loc.batch) :
                                    loc.batch[i].amt < MinAmount
                             /\ cursor' = loc.newest
                             /\ LoadCursor(kind, disk') = loc.newest]_vars

\* The second alert of a batch is going out to both chats of the snapshot
\* after a send of the first alert failed and unsubscribed a chat.
C18_Witness ==
    \E p \in Procs :
        /\ proc[p].pc = "send"
        /\ proc[p].idx >= 2
        /\ proc[p].subscribers = Chats
        /\ proc[p].chats = Chats
        /\ \E chat \in Chats : parity[chat] /\ chat \notin subs

\* C19: a toggle_subscription call flips the caller's membership and returns
\* the new membership, which is_subscribed then reports; a chat that was not
\* subscribed gets True and, from a second call straight after, False; the
\* second call restores the set; no other chat's membership changes.
C19_ToggleFlips ==
    [][\A chat_id \in Chats :
        parity'[chat_id] # parity[chat_id]
        => LET returned == ToggleReturn(subs, chat_id)
               second == ToggleReturn(subs', chat_id)
               again == Toggled(subs', chat_id)
           IN /\ IsSubscribed(subs', chat_id) = returned
              /\ IsSubscribed(subs', chat_id) # IsSubscribed(subs, chat_id)
              /\ ~IsSubscribed(subs, chat_id) => (returned /\ ~second)
              /\ IsSubscribed(again, chat_id) = second
              /\ again = subs
              /\ \A other \in Chats \ {chat_id} :
                    IsSubscribed(subs', other) = IsSubscribed(subs, other)]_vars

\* Before any cursor exists the state file holds a buyback section with no
\* subscriber and every chat has toggled an even number of times: a chat has
\* subscribed and unsubscribed again.
C19_Witness ==
    /\ kind = "buyback"
    /\ disk[kind].present
    /\ cursor = None
    /\ subs = {}
    /\ attempted = {}
    /\ \A chat_id \in Chats : ~parity[chat_id]

\* C20: with no delivery failing, whatever toggles of the two chats,
\* initialization, poll cycles and restarts interleave, each chat is subscribed
\* exactly when it has issued an odd number of toggles, in memory and in the
\* state file, and a toggle leaves the cursor as it was, in memory and in the
\* state file.
C20_NoToggleLost ==
    [][/\ \A chat_id \in Chats :
            /\ IsSubscribed(subs', chat_id) = parity'[chat_id]
            /\ IsSubscribed(LoadSubscribers(kind, disk'), chat_id) = parity'[chat_id]
       /\ parity' # parity
            => /\ cursor' = cursor
               /\ LoadCursor(kind, disk') = LoadCursor(kind, disk)]_vars

\* A chat has toggled after a cycle took its subscriber snapshot and before
\* that cycle's last send returned; the toggle is in memory and on disk.
C20_Witness ==
    \E p \in Procs :
        /\ proc[p].pc = "send"
        /\ proc[p].idx = Len(proc[p].batch)
        /\ proc[p].subscribers # subs
        /\ LoadSubscribers(kind, disk) = subs
        /\ \E chat_id \in Chats : parity[chat_id] /\ chat_id \notin proc[p].subscribers

\* C21: after every step of the buyback watcher the subscriber list in the
\* state file is the in-memory set, also after a save by the other watcher
\* sharing the file; the membership on disk after a toggle is the value the
\* toggle returned; a restart reloads exactly the set the process had.
C21_ToggleDurable ==
    [][kind = "buyback"
       => /\ LoadSubscribers(kind, disk') = subs'
          /\ \A chat_id \in env.chats :
                parity'[chat_id] # parity[chat_id]
                => IsSubscribed(LoadSubscribers(kind, disk'), chat_id)
                     = ToggleReturn(subs, chat_id)
          /\ SiblingSave => LoadSubscribers(kind, disk') = LoadSubscribers(kind, disk)
          /\ Restart => subs' = subs]_vars

\* The chat subscribed, the other watcher then saved its section to the same
\* file, the process restarted, and the chat is still subscribed.
C21_Witness ==
    /\ kind = "buyback"
    /\ init.pc = "todo"
    /\ disk[Sibling(kind)].present
    /\ \E chat_id \in env.chats : parity[chat_id] /\ IsSubscribed(subs, chat_id)

\* The items of a page that carry an identifier, newest first.
Identifiable(items) == SelectSeq(items, LAMBDA it : UniqueKey(it) # None)

\* C22: when the cursor is set and its identifier is nowhere on the page,
\* detect takes every identifiable item of the page as new, oldest first, and
\* the newest identifier of the page as the new cursor.
C22_CursorOffPage ==
    (/\ call.pc = "output"
     /\ call.last_seen # None
     /\ \A i \in 1..Len(call.items) : UniqueKey(call.items[i]) # call.last_seen)
    => /\ call.new_items = Reverse(Identifiable(call.items))
       /\ call.newest = IF Identifiable(call.items) = <<>> THEN None
                        ELSE UniqueKey(Identifiable(call.items)[1])

\* The identifiable items that stand before the cursor's item, oldest first
\* (all of them when the cursor is unset or not among them).
BeforeCursor(items, last_seen) ==
    LET ident == Identifiable(items)
        hits == {i \in 1..Len(ident) : last_seen # None /\ UniqueKey(ident[i]) = last_seen}
        stop == IF hits = {} THEN Len(ident) + 1
                ELSE CHOOSE i \in hits : \A j \in hits : i <= j
    IN Reverse(SubSeq(ident, 1, stop - 1))

\* C23: an item without identifier is skipped by the scan and the scan goes on
\* with the next older item: the new items are exactly the identifiable items
\* before the cursor, no item without identifier is among the new items or
\* the batch, and the new cursor is never the absent identifier of such an item.
C23_NoKeySkipped ==
    call.pc = "output"
    => /\ call.new_items = BeforeCursor(call.items, call.last_seen)
       /\ \A i \in 1..Len(call.new_items) : UniqueKey(call.new_items[i]) # None
       /\ \A i \in 1..Len(call.batch) : UniqueKey(call.batch[i]) # None
       /\ call.new_items # <<>>
            => \E i \in 1..Len(call.new_items) :
                  call.newest \in {None, UniqueKey(call.new_items[i])}

\* An item without identifier stood between two items of the page that the
\* scan both took as new.
C23_Witness ==
    /\ call.pc = "output"
    /\ Len(call.items) = 3
    /\ UniqueKey(call.items[2]) = None
    /\ Len(call.new_items) = 2
    /\ call.newest = UniqueKey(call.items[1])

\* The batch of the cycle of coroutine p: the one it is looping over, or the
\* one detect gives it on the page being fetched.
CycleBatch(p) ==
    IF proc[p].pc = "send" THEN proc[p].batch
    ELSE Batch(kind, Page(chain, PageSize), proc[p].last_seen)

\* C24: a new item whose amount or addresses cannot be parsed is skipped on
\* its own: a cycle that fetched a page with new items ends with the cursor
\* committed for the batch, and by then every item of the batch that reaches
\* the threshold has been handed to the send.
C24_ParseErrorSkipsItem ==
    [][\A p \in Procs :
        (/\ proc[p].pc # "idle"
         /\ proc'[p].pc = "idle"
         /\ proc'[p].fetch = "ok"
         /\ CycleBatch(p) # <<>>)
        => /\ proc'[p].result = "committed"
           /\ cursor' = UniqueKey(CycleBatch(p)[Len(CycleBatch(p))])
           /\ \A i \in 1..Len(CycleBatch(p)) :
                 CycleBatch(p)[i].amt >= MinAmount
                 => UniqueKey(CycleBatch(p)[i]) \in attempted']_vars

\* C25: whenever a watcher has written its section, loading that file gives
\* back the in-memory state that was saved: the cursor, the subscriber set,
\* the alerts_enabled switch and the processed set.
C25_RoundTrip ==
    [][(disk'[kind].present /\ disk'[kind] # disk[kind])
       => /\ LoadCursor(kind, disk') = cursor'
          /\ LoadSubscribers(kind, disk') = subs'
          /\ LoadAlertsEnabled(kind, disk') = alerts_enabled'
          /\ LastEntries(LoadProcessed(kind, disk')) = {processed'}]_vars

\* A restarted DEX or liquidity watcher that came back with a cursor, a
\* processed identifier and the switch turned off.
C25_Witness ==
    /\ init.pc = "todo"
    /\ HasSwitch(kind)
    /\ cursor # None
    /\ processed # {}
    /\ ~alerts_enabled
    /\ disk[kind].present

\* C26: a save whose write fails leaves the new value in memory (the operation
\* ends normally), and a save of the same watcher whose write succeeds leaves
\* that watcher's section on disk equal to its in-memory state.
C26_WriteFailure ==
    [][\A w \in FaultWatchers, v \in StoreValues :
        /\ \A outcome \in WriteOutcomes \ {"written"} :
              StoreCommit(w, v, outcome) => smem'[w] = v
        /\ StoreCommit(w, v, "written")
              => /\ smem'[w] = v
                 /\ sdoc' = "valid"
                 /\ LoadCursor(w, ReadDocument(sdoc', sfile')) = smem'[w]]_vars

\* A write failed after truncating the file: a watcher holds a cursor in
\* memory that the file does not give back.
C26_Witness ==
    /\ sdoc = "malformed"
    /\ \E w \in FaultWatchers :
          /\ smem[w] # None
          /\ LoadCursor(w, ReadDocument(sdoc, sfile)) # smem[w]

\* C27: with the state file absent or malformed, constructing the watchers
\* loads nothing (no cursor, no subscriber, no processed identifier), and the
\* next save that writes gives a valid document holding the saving watcher's
\* section and nothing taken from the unreadable file.
C27_UnreadableFile ==
    [][/\ (StoreRestart /\ sdoc # "valid")
            => \A w \in Watchers :
                  /\ smem'[w] = None
                  /\ LoadSubscribers(w, ReadDocument(sdoc, sfile)) = {}
                  /\ LoadProcessed(w, ReadDocument(sdoc, sfile)) = {}
       /\ \A w \in FaultWatchers, v \in StoreValues :
            (StoreCommit(w, v, "written") /\ sdoc # "valid")
            => /\ sdoc' = "valid"
               /\ sfile'[w] = SectionOf(w, v, {}, {})
               /\ \A other \in Watchers \ {w} : ~sfile'[other].present]_vars

\* The watchers were constructed from a malformed file that still holds the
\* bytes of an earlier section: none of them has a cursor.
C27_Witness ==
    /\ sdoc = "malformed"
    /\ \E w \in FaultWatchers : sfile[w].present
    /\ \A w \in Watchers : smem[w] = None

\* The addresses that spell the OG88 token address in some letter case.
IsOg88(address) == address \in {"0xd1841f", "0xD1841f", "0XD1841F"}

\* The positions of a transfer list that hold an OG88 transfer, ascending.
RECURSIVE Og88Only(_)
Og88Only(transfers) ==
    IF transfers = <<>> THEN <<>>
    ELSE IF IsOg88(Head(transfers).token_address)
         THEN <<Head(transfers)>> \o Og88Only(Tail(transfers))
         ELSE Og88Only(Tail(transfers))

PositionOf(hash, hashes) ==
    IF \E i \in 1..Len(hashes) : hashes[i] = hash
    THEN CHOOSE i \in 1..Len(hashes) :
            hashes[i] = hash /\ \A j \in 1..(i - 1) : hashes[j] # hash
    ELSE 0

\* A run of monitor_burn_wallet has ended that had a subscriber, a stored
\* last_hash and a fetched list holding that hash.
BurnRunEnded ==
    /\ burn.pc = "idle"
    /\ burn.result \in {"no_new", "done", "raised"}
    /\ PositionOf(burn.last_seen_hash, burn.recent_burns) > 0

\* C28 (as claimed).  With a subscriber and a stored last_hash H, whatever the
\* fetched newest-first list holding H, monitor_burn_wallet awaits
\* broadcast_burn_alert exactly once for each item before the item with hash
\* H, oldest first, and afterwards last_hash is the hash of the newest
\* fetched item.
C28_BurnMonitor ==
    BurnRunEnded
    => /\ burn.alerts = Reverse(SubSeq(burn.recent_burns, 1,
                                       PositionOf(burn.last_seen_hash, burn.recent_burns) - 1))
       /\ burn.last_hash = burn.recent_burns[1]

\* The chats a method of the bot was called for, for one transaction, as many
\* times as it was called.
SendsOf(sent, tx, method) ==
    SelectSeq(sent, LAMBDA e : e.tx = tx /\ e.method = method)

\* Every chat of a set appears exactly once in a sequence of sends, and
\* nobody else does.
OncePerChat(sends, chats) ==
    /\ {sends[i].chat_id : i \in 1..Len(sends)} = chats
    /\ \A i, j \in 1..Len(sends) : sends[i].chat_id = sends[j].chat_id => i = j

\* The broadcast of burn.tx stops at this step.
BroadcastStops ==
    /\ burn.pc \in {"message", "animation"}
    /\ burn'.pc = "idle" \/ burn'.tx # burn.tx

\* C29 (as claimed).  broadcast_burn_alert attempts send_message exactly once
\* for every chat of the subscriber set, followed by one send_animation to
\* that chat when an animation URL is configured; Forbidden removes exactly
\* that chat, any other error removes nobody, and either way the broadcast
\* does not stop before the remaining subscribers were attempted.
C29_BurnBroadcast ==
    /\ [](burn.pc \in {"message", "animation"}
          => /\ OncePerChat(SendsOf(burn.sent, burn.tx, "send_message"), burn.chats \ burn.todo)
             /\ \A i, j \in 1..Len(burn.sent) :
                   (burn.sent[i] = burn.sent[j]) => i = j)
    /\ [][/\ (SendMessageReturns("ok") /\ burn.animation)
             => /\ burn'.pc = "animation"
                /\ burn'.sent = Append(burn.sent, [tx |-> burn.tx, chat_id |-> burn.chat_id,
                                                   method |-> "send_animation"])
          /\ (SendMessageReturns("forbidden") \/ SendAnimationReturns("forbidden"))
             => burn'.subscribers = burn.subscribers \ {burn.chat_id}
          /\ (SendMessageReturns("error") \/ SendAnimationReturns("error"))
             => burn'.subscribers = burn.subscribers
          /\ BroadcastStops => burn.todo = {}]_vars

\* C31 (as claimed).  No duplicate alerts in sequential operation: with the
\* cycles of a watcher running one after another, the feed growing only at
\* its head and the cursor item on the fetched page, a cycle that started
\* from that cursor attempts no send for an item that was already handed to
\* its single destination by an earlier send.
C31_NoDuplicateAlert ==
    [][\A p \in Procs, chat \in env.chats \cup {Channel}, outcome \in SendOutcomes :
        (Deliver(p, chat, outcome) /\ ~env.overlap /\ proc[p].last_seen # None)
        => UniqueKey(proc[p].batch[proc[p].idx]) \notin attempted]_vars

\* C32 (as claimed).  Once toggle_subscription has unsubscribed a chat, no
\* buyback alert is sent to it until it subscribes again, not even by a cycle
\* that was in flight when the chat unsubscribed, and no step of such a cycle
\* puts the chat back into the subscriber set in memory or in the file.
C32_NoAlertAfterUnsubscribe ==
    [][\A p \in Procs, chat \in env.chats :
        (Deliver(p, chat, "ok") /\ kind = "buyback")
        => /\ chat \in subs
           /\ chat \notin subs => /\ chat \notin subs'
                                  /\ chat \notin LoadSubscribers(kind, disk')]_vars

\* C33 (as claimed).  Whatever the watcher, the item of every alert handed to
\* the delivery channel has a parsed amount strictly greater than zero: an
\* item whose amount is zero, negative, missing or unparseable never reaches a
\* send.
C33_PositiveAmount ==
    \A p \in Procs :
        proc[p].pc = "send" => proc[p].batch[proc[p].idx].amt > 0

\* The spellings of the tracked exchange's address.
IsExchange(address) == address \in {"0xex", "0xEx", "0xEX"}

\* C34: for an item with a positive amount and both endpoints, the exchange
\* address compared in any letter case, the item is an inflow iff it goes to
\* the exchange from somewhere else, an outflow iff it leaves the exchange for
\* somewhere else, and gets no alert otherwise (self-transfer, or neither
\* endpoint is the exchange); it is never both, and of the alerts sent the
\* inflow template is used exactly for the inflows.
C34_FlowClassification ==
    (call.pc = "output" /\ call.value > 0 /\ call.from # "" /\ call.to # "")
    => /\ call.flow.is_inflow = (IsExchange(call.to) /\ ~IsExchange(call.from))
       /\ call.flow.is_outflow = (IsExchange(call.from) /\ ~IsExchange(call.to))
       /\ ~(call.flow.is_inflow /\ call.flow.is_outflow)
       /\ ~(call.flow.is_inflow \/ call.flow.is_outflow) => call.flow.template = "none"
       /\ call.flow.template = "inflow_template"
            <=> (call.flow.is_inflow /\ call.value >= MinAmount)
       /\ call.flow.template = "outflow_template"
            <=> (call.flow.is_outflow /\ call.value >= MinAmount)

\* A transfer at the threshold from a third address to the exchange, spelled
\* in upper case, went out with the inflow template.
C34_Witness ==
    /\ call.pc = "output"
    /\ call.value = MinAmount
    /\ call.from = "0xa"
    /\ call.to = "0xEX"
    /\ call.flow.step = "sent"
    /\ call.flow.is_inflow
    /\ call.flow.template = "inflow_template"

\* The transaction holds a transfer of the pool's LP token from, or to, the
\* zero address.
LpMinted(transfers) ==
    \E transfer \in transfers : transfer.token = "0xlp" /\ transfer.from = ZERO_ADDRESS
LpBurned(transfers) ==
    \E transfer \in transfers : transfer.token = "0xlp" /\ transfer.to = ZERO_ADDRESS

IsPool(address) == address \in {"0xpool", "0xPool"}

\* C35 (as claimed).  A transfer into the pool is LIQUIDITY_ADDED iff its
\* transaction holds a transfer of the pool's LP token from the zero address
\* and SELL otherwise; a transfer out of the pool is LIQUIDITY_REMOVED iff the
\* transaction holds a transfer of the LP token to the zero address and BUY
\* otherwise; the event is sent iff its amount reaches the threshold of its
\* own kind (liquidity, sell, buy).
C35_PoolClassification ==
    (call.pc = "output" /\ call.event.event_type # "none")
    => /\ (IsPool(call.to) /\ ~IsPool(call.from))
          => call.event.event_type =
                IF LpMinted(call.transfers) THEN "LIQUIDITY_ADDED" ELSE "SELL"
       /\ (IsPool(call.from) /\ ~IsPool(call.to))
          => call.event.event_type =
                IF LpBurned(call.transfers) THEN "LIQUIDITY_REMOVED" ELSE "BUY"
       /\ call.event.min_threshold =
             CASE call.event.event_type = "BUY" -> MinBuy
               [] call.event.event_type = "SELL" -> MinSell
               [] OTHER -> MinLiquidity
       /\ (call.event.step = "sent") = (call.amount >= call.event.min_threshold)

\* The spellings of the known pool, exchange and router addresses.
IsKnownAddress(address) ==
    address \in {"0xpool", "0xPool", "0xex", "0xEx", "0xrouter", "0xRouter"}

\* C36: a WHALE_MOVE alert goes out only for a native transfer whose amount
\* is at least the whale threshold, whose sender and receiver are both
\* present and neither a known pool, exchange or router address in whatever
\* letter case, and whose transaction is not flagged as a contract call.
C36_WhaleMoveOnly ==
    (call.pc = "output" /\ call.step = "sent")
    => /\ call.amount >= WhaleThreshold
       /\ call.from # "" /\ ~IsKnownAddress(call.from)
       /\ call.to # "" /\ ~IsKnownAddress(call.to)
       /\ "contract_call" \notin call.tx_types

\* A plain coin transfer at the threshold between two wallets was sent.
C36_Witness ==
    /\ call.pc = "output"
    /\ call.amount = WhaleThreshold
    /\ call.from = "0xA"
    /\ call.to = "0xb"
    /\ call.tx_types = {"coin_transfer"}
    /\ call.step = "sent"

\* Feed item x qualifies for an alert, stands ahead of the cursor, and the
\* watcher is enabled with its channel and has its jobs scheduled.
AheadOfCursor(x) ==
    /\ enabled
    /\ init.pc = "done"
    /\ x <= Len(chain)
    /\ UniqueKey(chain[x]) = x
    /\ chain[x].amt >= MinAmount
    /\ cursor = None \/ cursor < x

\* C37 (as claimed).  At-least-once under transient fetch failure: while a
\* qualifying item stays on the page ahead of the cursor of an enabled
\* watcher, with cycles being scheduled and fetches succeeding again and
\* again, a delivery attempt for the item eventually happens.
C37_EventuallyAttempted ==
    \A x \in 1..MaxFeed :
        AheadOfCursor(x) ~> (x \in attempted \/ ~AheadOfCursor(x))

\* C38.  Lock discipline: a statement that changes the cursor, the subscriber
\* set, the processed cache or the alerts switch, or saves the state file, is
\* executed by a coroutine that holds the watcher's lock; an upstream fetch or
\* a send is started by a coroutine that does not hold it, and the lock is
\* free whenever the event loop is between coroutines.
C38_LockDiscipline ==
    call.pc = "lock"
    => /\ call.op \in Mutations => call.held
       /\ call.op \in Awaits => ~call.held
       /\ call.running = NoTask => call.holder = NoTask

\* A coroutine commits its cursor under the lock while another one of the
\* same watcher is suspended in the middle of its cycle.
C38_Witness ==
    /\ call.pc = "lock"
    /\ call.op = "set_last_seen"
    /\ call.held
    /\ \E t \in Tasks :
          /\ t # call.by
          /\ call.task[t].at > 1
          /\ ~Finished(call.task[t])

SectionAfter ==
    [SectionOf(kind, cursor', subs', processed')
       EXCEPT !.alerts_enabled = alerts_enabled']

\* C40.  toggle_alerts called without a configured channel, by a user who is
\* not administrator or owner, or with a failing lookup, returns failure and
\* leaves the switch and the state file unchanged; the switch changes only in
\* a call of a confirmed admin; and with an explicit enable value the call is
\* idempotent: the switch has that value and a second call would change
\* neither the switch nor the file.
C40_AdminOnlyToggle ==
    /\ [][\A channel \in AlertChannels, member \in MemberLookups,
             enable \in {"toggle", "on", "off"} :
            ToggleAlertsCommand(channel, member, enable)
            => /\ (channel = "" \/ member \notin {"administrator", "creator"})
                  => /\ ~call'.success
                     /\ alerts_enabled' = alerts_enabled
                     /\ disk' = disk
               /\ (call'.success /\ enable # "toggle")
                  => /\ alerts_enabled' = (enable = "on")
                     /\ SwitchValue(alerts_enabled', enable) = alerts_enabled'
                     /\ SaveState(kind, disk', SectionAfter) = disk']_vars
    /\ [][alerts_enabled' # alerts_enabled
          => \E member \in {"administrator", "creator"},
                enable \in {"toggle", "on", "off"} :
                ToggleAlertsCommand("@channel", member, enable)]_vars

\* A plain member asked to switch the alerts off, the call failed, the alerts
\* are still on and the file holds a cursor the watcher saved before.
C40_Witness ==
    /\ call.pc = "toggle_alerts"
    /\ call.member = "member"
    /\ call.enable = "off"
    /\ ~call.success
    /\ alerts_enabled
    /\ LoadCursor(kind, disk) # None

====
